---- MODULE Spec2Model ----
(***************************************************************************)
(* Model of mlops-feature-store: the registry of feature views, the        *)
(* offline (historical) table with ingest and the latest-row-per-entity    *)
(* query, the online store with its Redis and in-memory backends,          *)
(* materialization from the offline table into the online store, the       *)
(* request handlers and the stream processor.                              *)
(*                                                                         *)
(* The specifications of the module:                                       *)
(*   CacheSpec    direct writes to the online store (online.py)            *)
(*   Spec         ingest and materialize calls, interleaved at their       *)
(*                await points (ingest.py, offline.py, materialize.py)     *)
(*   IngestSpec   ingest calls alone                                       *)
(*   MatSpec      materialize calls over a fixed offline table, with the   *)
(*                outcome of the previous call remembered                  *)
(*   TwoSpec      two materialize calls at once, with rows ingested in     *)
(*                between                                                  *)
(*   RegistrySpec the registry file, Registry.reload and the lookups       *)
(*                (registry.py, api/routes/registry.py)                    *)
(*   LoadSpec     loads of a registry file with incomplete entries         *)
(*   SwapSpec     Registry.reload statement by statement, with readers     *)
(*   TtlSpec      direct writes to the online store as time passes         *)
(*   SeqSpec      the writes of a materialize call, started and returned   *)
(*   BothSpec     the Redis and the in-memory store given the same writes  *)
(*   ApiSpec      the endpoints over a loaded registry (api/routes)        *)
(*   StreamSpec   FeatureStreamProcessor (streaming/consumer.py)           *)
(*   StreamFairSpec  StreamSpec with every awaited call returning          *)
(*   StrategySpec FallbackRetrievalStrategy (feature_store/strategies.py)  *)
(***************************************************************************)
EXTENDS Integers, Sequences, FiniteSets, TLC

VARIABLES
    backend,        \* OnlineStore.instance(): "redis" or "memory"
    cache,          \* the online store: storage key -> (field -> string)
    issued,         \* history: the (view, entity) pairs a write was issued for
    now,            \* the seconds elapsed since the online store was set up
    twin,           \* a MemoryOnlineStore given the writes the Redis store is given
    dialect,        \* engine().dialect.name
    limit,          \* the limit materialize is called with
    pkey,           \* whether the offline table declares PRIMARY KEY (entity, ts)
    table,          \* the committed rows of the offline table, in insertion order
    ing,            \* the ingest_rows call in flight
    mat,            \* the materialize_feature_view call in flight
    prev,           \* history: the outcome of the last completed materialize call
    calls,          \* two materialize_feature_view calls in flight at once
    wrote,          \* history: entity id -> the last write of calls to it
    source,         \* the registry file: missing, unparsable, or YAML with its entries
    feature_views,  \* Registry.feature_views
    reg,            \* whether Registry._instance is set, and how the last reload ended
    rel,            \* the Registry.reload call in flight, statement by statement
    obs,            \* history: what the last step read from the registry, if it was a read
    proc,           \* the FeatureStreamProcessor and its start() call
    strat           \* a FallbackRetrievalStrategy and its retrieve call

cacheVars == <<backend, cache, issued, now, twin>>
pipeVars  == <<dialect, limit, pkey, table, ing, mat, prev, calls, wrote>>
regVars   == <<source, feature_views, reg, rel, obs>>
streamVars == <<proc>>
strategyVars == <<strat>>
vars      == <<backend, cache, issued, now, twin, dialect, limit, pkey, table, ing, mat, prev,
               calls, wrote, source, feature_views, reg, rel, obs, proc, strat>>

(***************************************************************************)
(* Values.  A feature value is None or a tagged Python value; str(v) is    *)
(* the text the online store keeps.                                        *)
(***************************************************************************)
Null == [t |-> "null"]
IntV(n) == [t |-> "int", n |-> n]
FloatV(w, f) == [t |-> "float", w |-> w, f |-> f]
StrV(s) == [t |-> "str", s |-> s]

\* a string form that drops the fraction of a float
PyStrWhole(v) ==
    CASE v.t = "int" -> ToString(v.n)
      [] v.t = "float" -> ToString(v.w)
      [] v.t = "str" -> v.s

\* str(v) of Python: 29 -> "29", 3.0 -> "3.0", "FR" -> "FR"
PyStr(v) ==
    CASE v.t = "int" -> ToString(v.n)
      [] v.t = "float" -> ToString(v.w) \o "." \o ToString(v.f)
      [] v.t = "str" -> v.s

\* the result None of get_entity_features / get_feature_view
Absent == [none |-> TRUE]

EmptyMap == << >>

(***************************************************************************)
(* Online store (online.py)                                                *)
(***************************************************************************)
Backends == {"redis", "memory"}

\* OnlineStore._key
Key(fv, entity_id) == "fv:" \o fv \o ":entity:" \o entity_id

\* Encode without its filter: None is stored as the text "None"
EncodeUnfiltered(features) ==
    [k \in DOMAIN features |->
        IF features[k] = Null THEN "None" ELSE PyStr(features[k])]

\* {k: str(v) for k, v in features.items() if v is not None}
Encode(features) ==
    [k \in {f \in DOMAIN features : features[f] # Null} |-> PyStr(features[k])]

\* a store that keeps nothing but the key written last
PutAlone(c, key, val) == [k \in {key} |-> val]

\* dict assignment d[key] = val
Put(c, key, val) == [k \in DOMAIN c \cup {key} |-> IF k = key THEN val ELSE c[k]]

\* Redis HSET key field value [field value ...]: the fields given are set, the
\* other fields of the hash stay
RedisHSet(c, key, mapping) ==
    LET old == IF key \in DOMAIN c THEN c[key] ELSE EmptyMap
    IN  Put(c, key, [k \in DOMAIN old \cup DOMAIN mapping |->
                        IF k \in DOMAIN mapping THEN mapping[k] ELSE old[k]])

\* RedisOnlineStore.write_entity_features.  redis-py refuses an HSET with no
\* field ("'hset' with no key value pairs") before anything is sent; net is
\* whether the round trip to the server succeeds.
RedisWrite(c, fv, entity_id, features, net) ==
    LET mapping == Encode(features)
    IN  IF mapping = EmptyMap \/ ~net
        THEN [ok |-> FALSE, cache |-> c]
        ELSE [ok |-> TRUE, cache |-> RedisHSet(c, Key(fv, entity_id), mapping)]

\* MemoryOnlineStore.write_entity_features
MemoryWrite(c, fv, entity_id, features, net) ==
    [ok |-> TRUE, cache |-> Put(c, Key(fv, entity_id), Encode(features))]

\* online.write_entity_features(fv, entity_id, features) on the configured backend
WriteEntityFeatures(b, c, fv, entity_id, features, net) ==
    IF b = "redis"
    THEN RedisWrite(c, fv, entity_id, features, net)
    ELSE MemoryWrite(c, fv, entity_id, features, net)

\* RedisOnlineStore.get_entity_features: HGETALL of a missing key is {}
RedisGet(c, fv, entity_id) ==
    LET key == Key(fv, entity_id)
        data == IF key \in DOMAIN c THEN c[key] ELSE EmptyMap
    IN  IF data = EmptyMap THEN Absent ELSE data

\* MemoryOnlineStore.get_entity_features
MemoryGet(c, fv, entity_id) ==
    LET key == Key(fv, entity_id)
    IN  IF key \in DOMAIN c THEN c[key] ELSE Absent

\* online.get_entity_features(fv, entity_id) on the configured backend
GetEntityFeatures(b, c, fv, entity_id) ==
    IF b = "redis" THEN RedisGet(c, fv, entity_id) ELSE MemoryGet(c, fv, entity_id)

(***************************************************************************)
(* The feature view of the pipeline (models.py) and the offline table      *)
(***************************************************************************)
MaxRows == 2        \* rows the offline table holds at most
MaxLimit == 2       \* the largest limit a materialize call is given

\* FeatureView user_features
FV == [name |-> "user_features",
       entity_column |-> "user_id",
       timestamp_column |-> "event_ts",
       features |-> <<"age", "purchases_7d">>]

FeatureCols(fv) == {fv.features[i] : i \in DOMAIN fv.features}

\* a datetime value
DateTime(n) == [t |-> "datetime", n |-> n]
\* ISO-8601 text of the instant n, with its zone designator
IsoText(n, zone) == [t |-> "str", iso |-> TRUE, n |-> n, zone |-> zone]
\* text that is no ISO-8601 timestamp
BadText == [t |-> "str", iso |-> FALSE]

EntityValues == {IntV(1), IntV(2)}
Instants == {1, 2}

\* the feature values of a row: all set, or one set and one None
FeatureValues ==
    {[age |-> IntV(28), purchases_7d |-> FloatV(3, 0)],
     [age |-> IntV(29), purchases_7d |-> Null]}

\* the result of a step that raises
Raise(what) == [ok |-> FALSE, error |-> what]
Return(v) == [ok |-> TRUE, value |-> v]

(***************************************************************************)
(* Ingest (ingest.py)                                                      *)
(***************************************************************************)
\* str.replace("Z", "+00:00") on an ISO text
ReplaceZ(v) == IF v.iso /\ v.zone = "Z" THEN [v EXCEPT !.zone = "+00:00"] ELSE v

\* datetime.fromisoformat: the "Z" designator is not accepted, other text raises
FromIsoFormat(v) ==
    IF v.iso /\ v.zone # "Z" THEN Return(DateTime(v.n)) ELSE Raise("ValueError")

\* _parse_ts
ParseTs(v) ==
    IF v.t = "datetime" THEN Return(v)
    ELSE IF v.t = "str" THEN FromIsoFormat(ReplaceZ(v))
    ELSE Return(v)

\* a lookup whose default is 0
DictGetZero(r, c) == IF c \in DOMAIN r THEN r[c] ELSE IntV(0)

\* r.get(c)
DictGet(r, c) == IF c \in DOMAIN r THEN r[c] ELSE Null

\* expected = [entity_col, ts_col] + feature_cols
Expected(fv) == {fv.entity_column, fv.timestamp_column} \cup FeatureCols(fv)

\* payload = {c: r.get(c) for c in expected}; payload[ts_col] = _parse_ts(payload[ts_col])
Payload(fv, r) ==
    LET ts == ParseTs(DictGet(r, fv.timestamp_column))
    IN  IF ~ts.ok THEN ts
        ELSE Return([c \in Expected(fv) |->
                        IF c = fv.timestamp_column THEN ts.value ELSE DictGet(r, c)])

\* The INSERT of one row inside the transaction: the entity and timestamp columns
\* are NOT NULL, and with the primary key no two rows share (entity, timestamp).
\* seen are the rows the statement sees: the committed ones and the transaction's own.
Insert(fv, unique, seen, row) ==
    IF row[fv.entity_column] = Null \/ row[fv.timestamp_column] = Null
    THEN Raise("IntegrityError")
    ELSE IF unique /\ \E i \in DOMAIN seen :
                /\ seen[i][fv.entity_column] = row[fv.entity_column]
                /\ seen[i][fv.timestamp_column] = row[fv.timestamp_column]
    THEN Raise("IntegrityError")
    ELSE Return(row)

\* one iteration of the loop of ingest_rows on input row r
IngestStep(fv, unique, seen, r) ==
    LET payload == Payload(fv, r)
    IN  IF ~payload.ok THEN payload ELSE Insert(fv, unique, seen, payload.value)

\* Commit that is never issued: the rows of the transaction are lost
CommitLost(tbl, buf) == tbl

\* Rollback of a connection in autocommit: the rows executed so far stay
RollbackAutocommit(tbl, buf) == tbl \o buf

\* a commit that puts the rows of the transaction in the place of the table
CommitReplacing(tbl, buf) == buf

\* what the transaction makes of the table when the block of engine().begin() is
\* left: COMMIT appends the transaction's rows
Commit(tbl, buf) == tbl \o buf

\* ... and ROLLBACK, on an exception, drops them
Rollback(tbl, buf) == tbl

\* the rows the table may hold: the first entity at every instant with every
\* payload, the second entity with one row
StoredRows ==
    {r \in {[user_id |-> e, event_ts |-> DateTime(n), age |-> f.age,
             purchases_7d |-> f.purchases_7d] :
                e \in EntityValues, n \in Instants, f \in FeatureValues} :
        \/ r.user_id = IntV(1)
        \/ r.event_ts = DateTime(1) /\ r.purchases_7d # Null}

\* the rows a caller may hand to ingest: every stored form, the timestamp also as
\* text, and rows with a column missing or a column the view does not declare
InputRows ==
    StoredRows
    \cup {[user_id |-> IntV(1), event_ts |-> IsoText(n, z), age |-> IntV(28),
           purchases_7d |-> FloatV(3, 0)] : n \in Instants, z \in {"Z", "+00:00"}}
    \cup {[user_id |-> IntV(2), event_ts |-> IsoText(1, "Z"), age |-> IntV(28),
           purchases_7d |-> FloatV(3, 0)]}
    \cup {[user_id |-> e, event_ts |-> BadText, age |-> IntV(28),
           purchases_7d |-> FloatV(3, 0)] : e \in EntityValues}
    \cup {[user_id |-> IntV(1), event_ts |-> DateTime(n), age |-> IntV(29),
           extra |-> StrV("x")] : n \in Instants}
    \cup {[user_id |-> e, age |-> IntV(29)] : e \in EntityValues}
    \cup {[event_ts |-> DateTime(n), age |-> IntV(29)] : n \in Instants}

IngIdle == [pc |-> "idle"]

\* async with engine().begin() as conn: the transaction opens, n = 0
IngestBegin ==
    /\ ing.pc = "idle"
    /\ ing' = [pc |-> "tx", buf |-> << >>, n |-> 0, k |-> 0, before |-> table]
    /\ UNCHANGED <<dialect, limit, pkey, table, mat, prev, calls, wrote>>
    /\ UNCHANGED cacheVars /\ UNCHANGED regVars /\ UNCHANGED streamVars /\ UNCHANGED strategyVars

\* for r in rows: one row is built and executed; a raise leaves the block, which
\* rolls the transaction back
IngestRow(r) ==
    /\ ing.pc = "tx"
    /\ LET res == IngestStep(FV, pkey, table \o ing.buf, r)
       IN  IF res.ok
           THEN /\ Len(table) + Len(ing.buf) < MaxRows
                /\ ing' = [ing EXCEPT !.buf = Append(@, res.value),
                                      !.n = @ + 1, !.k = @ + 1]
                /\ table' = table
           ELSE /\ table' = Rollback(table, ing.buf)
                /\ ing' = [pc |-> "failed", n |-> ing.n, k |-> ing.k + 1,
                           before |-> ing.before, error |-> res.error]
    /\ UNCHANGED <<dialect, limit, pkey, mat, prev, calls, wrote>>
    /\ UNCHANGED cacheVars /\ UNCHANGED regVars /\ UNCHANGED streamVars /\ UNCHANGED strategyVars

\* a commit that also writes to the online store
IngestCommitWritingThrough ==
    /\ ing.pc = "tx"
    /\ table' = Commit(table, ing.buf)
    /\ ing' = [ing EXCEPT !.pc = "done"]
    /\ cache' = Put(cache, Key(FV.name, "1"), [ingested |-> ToString(Len(table'))])
    /\ UNCHANGED <<dialect, limit, pkey, mat, prev, calls, wrote>>
    /\ UNCHANGED <<backend, issued, now, twin>> /\ UNCHANGED regVars /\ UNCHANGED streamVars /\ UNCHANGED strategyVars

\* the loop is over: the block of engine().begin() is left normally, the
\* transaction commits and ingest_rows returns n
IngestCommit ==
    /\ ing.pc = "tx"
    /\ table' = Commit(table, ing.buf)
    /\ ing' = [ing EXCEPT !.pc = "done"]
    /\ UNCHANGED <<dialect, limit, pkey, mat, prev, calls, wrote>>
    /\ UNCHANGED cacheVars /\ UNCHANGED regVars /\ UNCHANGED streamVars /\ UNCHANGED strategyVars

\* the caller has the result (the count, or the exception)
IngestReturn ==
    /\ ing.pc \in {"done", "failed"}
    /\ ing' = IngIdle
    /\ UNCHANGED <<dialect, limit, pkey, table, mat, prev, calls, wrote>>
    /\ UNCHANGED cacheVars /\ UNCHANGED regVars /\ UNCHANGED streamVars /\ UNCHANGED strategyVars

(***************************************************************************)
(* Latest row per entity (offline.py)                                      *)
(***************************************************************************)
Dialects == {"postgresql", "sqlite"}

\* the permutations of a finite set, as sequences
Perms(S) ==
    {p \in [1..Cardinality(S) -> S] : \A i, j \in 1..Cardinality(S) : i # j => p[i] # p[j]}

\* SortsBefore with the timestamps ascending
SortsBeforeAscending(fv, a, b) ==
    \/ a[fv.entity_column].n < b[fv.entity_column].n
    \/ /\ a[fv.entity_column] = b[fv.entity_column]
       /\ a[fv.timestamp_column].n < b[fv.timestamp_column].n

\* ORDER BY entity, ts DESC: whether row a must come before row b
SortsBefore(fv, a, b) ==
    \/ a[fv.entity_column].n < b[fv.entity_column].n
    \/ /\ a[fv.entity_column] = b[fv.entity_column]
       /\ a[fv.timestamp_column].n > b[fv.timestamp_column].n

\* the orders in which the engine may produce the rows sorted by entity and, within
\* an entity, by descending timestamp: rows equal on both come in either order
SortedOrders(fv, tbl) ==
    {p \in Perms(DOMAIN tbl) :
        \A i, j \in DOMAIN p : i < j => ~SortsBefore(fv, tbl[p[j]], tbl[p[i]])}

\* every row of a sorted order, the rows of an entity after its first included
EveryRow(fv, tbl, p, i) == [k \in DOMAIN p |-> tbl[p[k]]]

\* the first row of every entity in a sorted order: what DISTINCT ON (entity) keeps,
\* and the rows numbered rn = 1 by ROW_NUMBER() OVER (PARTITION BY entity ORDER BY ts DESC)
RECURSIVE FirstOfEntity(_, _, _, _)
FirstOfEntity(fv, tbl, p, i) ==
    IF i > Len(p) THEN << >>
    ELSE LET rest == FirstOfEntity(fv, tbl, p, i + 1)
         IN  IF i = 1 \/ tbl[p[i]][fv.entity_column] # tbl[p[i - 1]][fv.entity_column]
             THEN <<tbl[p[i]]>> \o rest
             ELSE rest

\* a query without its LIMIT clause
LimitOff(rows, lim) == rows

\* LIMIT :limit
Limit(rows, lim) == SubSeq(rows, 1, IF lim < Len(rows) THEN lim ELSE Len(rows))

\* SELECT DISTINCT ON (entity) ... ORDER BY entity, ts DESC LIMIT :limit
PostgresLatest(fv, tbl, lim) ==
    {Limit(FirstOfEntity(fv, tbl, p, 1), lim) : p \in SortedOrders(fv, tbl)}

\* SELECT ... FROM (SELECT ..., ROW_NUMBER() OVER (...) AS rn FROM t) WHERE rn = 1
\* LIMIT :limit.  The outer query has no ORDER BY: its rows come in an order the
\* engine chooses, and LIMIT keeps the first of them.
WindowLatest(fv, tbl, lim) ==
    UNION {LET first == FirstOfEntity(fv, tbl, p, 1)
           IN  {Limit([i \in DOMAIN first |-> first[q[i]]], lim) :
                    q \in Perms(DOMAIN first)} :
           p \in SortedOrders(fv, tbl)}

\* a query that gives some row of every entity, the latest or not
AnyRowsByEntity(d, fv, tbl, lim) ==
    {Limit(FirstOfEntity(fv, tbl, p, 1), lim) :
        p \in {q \in Perms(DOMAIN tbl) :
                \A i, j \in DOMAIN q :
                    i < j => tbl[q[i]][fv.entity_column].n <= tbl[q[j]][fv.entity_column].n}}

\* latest_rows_by_entity: the results the query may give on the committed table
LatestRowsByEntity(d, fv, tbl, lim) ==
    IF d = "postgresql" THEN PostgresLatest(fv, tbl, lim)
    ELSE WindowLatest(fv, tbl, lim)

(***************************************************************************)
(* Materialize (materialize.py)                                            *)
(***************************************************************************)
MatIdle == [pc |-> "idle"]

\* the callers of the two calls that run at once
Callers == {1, 2}

\* none of the two is running
ParkedCalls ==
    /\ calls = [c \in Callers |-> MatIdle]
    /\ wrote = EmptyMap

\* a payload that leaves out the timestamp column only
FeaturePayloadWithEntity(fv, r) ==
    [k \in DOMAIN r \ {fv.timestamp_column} |-> r[k]]

\* payload = {k: v for k, v in r.items() if k not in (entity_col, ts_col)}
FeaturePayload(fv, r) ==
    [k \in DOMAIN r \ {fv.entity_column, fv.timestamp_column} |-> r[k]]

\* entity_id = str(r[entity_col])
EntityId(fv, r) == PyStr(r[fv.entity_column])

\* AfterFailedWrite of a call that undoes its writes
AfterFailedWriteUndone(c, c0) == c0

\* a write that raises is not caught: the exception leaves the loop and the call,
\* and the online store stays as the writes before it left it (c0 is the store
\* as the call found it)
AfterFailedWrite(c, c0) == c

\* rows = await latest_rows_by_entity(fv, limit=limit); n = 0
MatQuery ==
    /\ mat.pc = "idle"
    /\ \E rows \in LatestRowsByEntity(dialect, FV, table, limit) :
        mat' = [pc |-> "writing", rows |-> rows, n |-> 0, cache0 |-> cache,
                written |-> << >>]
    /\ UNCHANGED <<dialect, limit, pkey, table, ing, prev, calls, wrote>>
    /\ UNCHANGED cacheVars /\ UNCHANGED regVars /\ UNCHANGED streamVars /\ UNCHANGED strategyVars

\* one iteration of the loop: await online.write_entity_features(...); n += 1.
\* A write that raises ends the call with the exception.
MatWrite(net) ==
    /\ mat.pc = "writing"
    /\ mat.n < Len(mat.rows)
    /\ LET r == mat.rows[mat.n + 1]
           res == WriteEntityFeatures(backend, cache, FV.name, EntityId(FV, r),
                                      FeaturePayload(FV, r), net)
       IN  IF res.ok
           THEN /\ cache' = res.cache
                /\ mat' = [mat EXCEPT !.n = @ + 1,
                                      !.written = Append(@, Key(FV.name, EntityId(FV, r)))]
           ELSE /\ cache' = AfterFailedWrite(res.cache, mat.cache0)
                /\ mat' = [pc |-> "failed", rows |-> mat.rows, n |-> mat.n,
                           cache0 |-> mat.cache0, written |-> mat.written,
                           result |-> Raise("StoreWriteError")]
    /\ UNCHANGED <<dialect, limit, pkey, table, ing, prev, calls, wrote>>
    /\ UNCHANGED <<backend, issued, now, twin>> /\ UNCHANGED regVars /\ UNCHANGED streamVars /\ UNCHANGED strategyVars

\* the loop is over: return n
MatDone ==
    /\ mat.pc = "writing"
    /\ mat.n = Len(mat.rows)
    /\ mat' = [pc |-> "done", rows |-> mat.rows, n |-> mat.n,
               cache0 |-> mat.cache0, written |-> mat.written,
               result |-> Return(mat.n)]
    /\ UNCHANGED <<dialect, limit, pkey, table, ing, prev, calls, wrote>>
    /\ UNCHANGED cacheVars /\ UNCHANGED regVars /\ UNCHANGED streamVars /\ UNCHANGED strategyVars

\* the caller has the result (the count, or the exception)
MatReturn ==
    /\ mat.pc \in {"done", "failed"}
    /\ mat' = MatIdle
    /\ UNCHANGED <<dialect, limit, pkey, table, ing, prev, calls, wrote>>
    /\ UNCHANGED cacheVars /\ UNCHANGED regVars /\ UNCHANGED streamVars /\ UNCHANGED strategyVars

(***************************************************************************)
(* The pipeline: one ingest call and one materialize call at a time, their   *)
(* steps interleaved at the await points                                   *)
(***************************************************************************)
\* no stream processor is started
ParkedStream == proc = [pc |-> "new"]

\* no retrieval strategy was constructed
ParkedStrategy == strat = [pc |-> "none"]

RegParked ==
    /\ ParkedStream
    /\ ParkedStrategy
    /\ source = [kind |-> "missing"]
    /\ feature_views = << >>
    /\ reg = [inst |-> FALSE, last |-> "none"]
    /\ rel = [pc |-> "idle"]
    /\ obs = [taken |-> FALSE]

Init ==
    /\ backend \in Backends
    /\ cache = EmptyMap
    /\ issued = {}
    /\ now = 0
    /\ twin = EmptyMap
    /\ dialect \in Dialects
    /\ limit = MaxLimit
    /\ pkey \in BOOLEAN
    /\ table = << >>
    /\ ing = IngIdle
    /\ mat = MatIdle
    /\ prev = [ok |-> FALSE]
    /\ ParkedCalls
    /\ RegParked

Next ==
    \/ IngestBegin
    \/ \E r \in InputRows : IngestRow(r)
    \/ IngestCommit
    \/ IngestReturn
    \/ MatQuery
    \/ \E net \in BOOLEAN : MatWrite(net)
    \/ MatDone
    \/ MatReturn

Spec == Init /\ [][Next]_vars

(***************************************************************************)
(* Claims about the pipeline, checked under Spec                           *)
(***************************************************************************)
\* what read(view, entity) gives in the current state
Read(entity_id) == GetEntityFeatures(backend, cache, FV.name, entity_id)

\* what read(view, entity) gave when the materialize call in flight began
ReadBefore(entity_id) == GetEntityFeatures(backend, mat.cache0, FV.name, entity_id)

\* whether a read result holds field f with text s
Holds(got, f, s) == got # Absent /\ f \in DOMAIN got /\ got[f] = s

\* whether a read result holds nothing for field f
HoldsNothing(got, f) == got = Absent \/ f \notin DOMAIN got

\* C2: when a row of an ingest call fails (malformed timestamp text or a violated
\* constraint), the call fails and the historical table is what it was before the
\* call; the rows of the call executed before the failing one are not in the table,
\* neither while the call runs nor after it failed.
C2_FailedIngestLeavesTable ==
    ing.pc \in {"tx", "failed"} => table = ing.before

\* C2 witness: a call failed on a malformed timestamp after a row of it was executed
C2_Witness ==
    /\ ing.pc = "failed"
    /\ ing.error = "ValueError"
    /\ ing.n >= 1
    /\ table = ing.before

\* C3: a successful ingest call with N input rows added exactly N rows to the
\* historical table, after the rows it held, in the order of the call, and
\* returned N; with N = 0 the table is unchanged and 0 is returned.
C3_IngestAddsEveryRow ==
    ing.pc = "done" =>
        /\ ing.n = ing.k
        /\ Len(table) = Len(ing.before) + ing.k
        /\ SubSeq(table, 1, Len(ing.before)) = ing.before
        /\ SubSeq(table, Len(ing.before) + 1, Len(table)) = ing.buf
        /\ (ing.k = 0 => table = ing.before)

\* C3 witness: a call of two rows returned 2
C3_Witness ==
    /\ ing.pc = "done"
    /\ ing.n = 2
    /\ Len(table) = Len(ing.before) + 2

\* whether rows is at most one row per entity, each a row of tbl whose timestamp is
\* at least that of every row of tbl of the same entity
LatestPerEntity(fv, tbl, rows) ==
    /\ \A i, j \in DOMAIN rows :
        i # j => rows[i][fv.entity_column] # rows[j][fv.entity_column]
    /\ \A i \in DOMAIN rows :
        /\ \E m \in DOMAIN tbl : tbl[m] = rows[i]
        /\ \A m \in DOMAIN tbl :
            tbl[m][fv.entity_column] = rows[i][fv.entity_column]
                => rows[i][fv.timestamp_column].n >= tbl[m][fv.timestamp_column].n

\* C4: on the table as it is, every result the query of the configured dialect may
\* give, for every limit, has at most one row per entity, and each returned row's
\* timestamp is at least that of every historical row of its entity.
C4_LatestRowPerEntity ==
    \A lim \in 1..MaxLimit :
        \A rows \in LatestRowsByEntity(dialect, FV, table, lim) :
            LatestPerEntity(FV, table, rows)

\* C4 witness: the query just ran on a table holding an older and a newer row of
\* one entity and returned the newer one
C4_Witness ==
    /\ mat.pc = "writing" /\ mat.n = 0
    /\ mat.rows \in LatestRowsByEntity(dialect, FV, table, limit)
    /\ \E a, b \in DOMAIN table :
        /\ table[a].user_id = table[b].user_id
        /\ table[a].event_ts.n < table[b].event_ts.n
        /\ \E i \in DOMAIN mat.rows : mat.rows[i] = table[b]

\* C6 as claimed: after a materialize call that returned, for every row of the
\* reader's result and every declared feature, the read of the row's entity holds
\* the string form of a non-null value and holds nothing for a null value.
C6_Claimed ==
    mat.pc = "done" =>
        \A i \in DOMAIN mat.rows : \A f \in FeatureCols(FV) :
            LET r == mat.rows[i]
                got == Read(EntityId(FV, r))
            IN  IF r[f] # Null THEN Holds(got, f, PyStr(r[f]))
                ELSE HoldsNothing(got, f)

\* C6 as amended: after a materialize call that returned, for every row of the
\* reader's result and every declared feature, the read of the row's entity holds
\* the string form of a non-null value; for a null value the call stored nothing:
\* on the Redis backend the feature reads as it did before the call, on the
\* in-memory backend it is not held.
C6_CacheReflectsResult ==
    mat.pc = "done" =>
        \A i \in DOMAIN mat.rows : \A f \in FeatureCols(FV) :
            LET r == mat.rows[i]
                got == Read(EntityId(FV, r))
                old == ReadBefore(EntityId(FV, r))
            IN  IF r[f] # Null THEN Holds(got, f, PyStr(r[f]))
                ELSE IF backend = "redis"
                THEN \/ HoldsNothing(got, f) /\ HoldsNothing(old, f)
                     \/ old # Absent /\ f \in DOMAIN old /\ Holds(got, f, old[f])
                ELSE HoldsNothing(got, f)

\* C6 witness: a call returned on the Redis backend, and a feature that is null in
\* the row it wrote still reads with the value an earlier call stored
C6_Witness ==
    /\ mat.pc = "done"
    /\ backend = "redis"
    /\ \E i \in DOMAIN mat.rows :
        /\ mat.rows[i].purchases_7d = Null
        /\ mat.rows[i].age = IntV(29)
        /\ Holds(Read(EntityId(FV, mat.rows[i])), "age", "29")
        /\ Holds(Read(EntityId(FV, mat.rows[i])), "purchases_7d", "3.0")

\* C8: when the write of the k-th row of the reader's result fails, the call fails
\* with the exception and returns no count, the k-1 entities written before keep
\* the values the call wrote, and the entities from the k-th on read as they did
\* before the call.
C8_NoRollbackOnFailure ==
    mat.pc = "failed" =>
        /\ ~mat.result.ok
        /\ mat.n < Len(mat.rows)
        /\ \A i \in 1..mat.n : \A f \in FeatureCols(FV) :
            mat.rows[i][f] # Null =>
                Holds(Read(EntityId(FV, mat.rows[i])), f, PyStr(mat.rows[i][f]))
        /\ \A i \in (mat.n + 1)..Len(mat.rows) :
            Read(EntityId(FV, mat.rows[i])) = ReadBefore(EntityId(FV, mat.rows[i]))

\* C8 witness: the second write failed after the first changed the entry of its
\* entity
C8_Witness ==
    /\ mat.pc = "failed"
    /\ mat.n = 1
    /\ Len(mat.rows) = 2
    /\ Read(EntityId(FV, mat.rows[1])) # ReadBefore(EntityId(FV, mat.rows[1]))

(***************************************************************************)
(* Materialize called again and again on a table nobody ingests into       *)
(***************************************************************************)
\* the tables of at most MaxRows stored rows
Tables == UNION {[1..m -> StoredRows] : m \in 0..MaxRows}

\* the caller has the result; prev keeps the count and the populated keys of the
\* call when it returned
MatReturnNoted ==
    /\ mat.pc \in {"done", "failed"}
    /\ prev' = IF mat.pc = "done"
               THEN [ok |-> TRUE, n |-> mat.result.value, keys |-> DOMAIN cache]
               ELSE [ok |-> FALSE]
    /\ mat' = MatIdle
    /\ UNCHANGED <<dialect, limit, pkey, table, ing, calls, wrote>>
    /\ UNCHANGED cacheVars /\ UNCHANGED regVars /\ UNCHANGED streamVars /\ UNCHANGED strategyVars

MatInit ==
    /\ backend \in Backends
    /\ cache = EmptyMap
    /\ issued = {}
    /\ now = 0
    /\ twin = EmptyMap
    /\ dialect \in Dialects
    /\ limit \in 1..MaxLimit
    /\ pkey = FALSE
    /\ table \in Tables
    /\ ing = IngIdle
    /\ mat = MatIdle
    /\ prev = [ok |-> FALSE]
    /\ ParkedCalls
    /\ RegParked

MatNext ==
    \/ MatQuery
    \/ \E net \in BOOLEAN : MatWrite(net)
    \/ MatDone
    \/ MatReturnNoted

MatSpec == MatInit /\ [][MatNext]_vars

\* C7: a materialize call that returns after an earlier call returned, with no
\* ingestion in between, reports the same processed count and leaves the same set
\* of populated cache keys as the earlier call, whatever the table and the limit.
C7_Claimed ==
    (mat.pc = "done" /\ prev.ok) =>
        /\ mat.result.value = prev.n
        /\ DOMAIN cache = prev.keys

(***************************************************************************)
(* The online store written to directly                                    *)
(***************************************************************************)
\* feature view names and entity ids: plain ones, and ones holding ":entity:"
CacheViews == {"v", "v:entity:x"}
CacheIds == {"1", "x:entity:1"}

\* the feature maps of a write: each feature left out, None, or a value
WriteMaps ==
    {m \in UNION {[fs -> {Null, IntV(28), IntV(29), FloatV(3, 0)}] :
                    fs \in SUBSET {"age", "purchases_7d"}} :
        /\ "age" \in DOMAIN m => m["age"].t # "float"
        /\ "purchases_7d" \in DOMAIN m => m["purchases_7d"].t # "int"}

ParkedPipe ==
    /\ dialect = "sqlite"
    /\ limit = MaxLimit
    /\ pkey = FALSE
    /\ table = << >>
    /\ ing = IngIdle
    /\ mat = MatIdle
    /\ prev = [ok |-> FALSE]
    /\ ParkedCalls

\* await online.write_entity_features(fv, entity_id, features), called directly.
\* issued notes the pair unless the write was lost on the network.
DirectWrite(fv, entity_id, features, net) ==
    /\ LET res == WriteEntityFeatures(backend, cache, fv, entity_id, features, net)
       IN  cache' = res.cache
    /\ issued' = IF net \/ backend = "memory"
                 THEN issued \cup {<<fv, entity_id>>} ELSE issued
    /\ backend' = backend
    /\ now' = now
    /\ twin' = twin
    /\ UNCHANGED pipeVars /\ UNCHANGED regVars /\ UNCHANGED streamVars /\ UNCHANGED strategyVars

CacheInit ==
    /\ backend \in Backends
    /\ cache = EmptyMap
    /\ issued = {}
    /\ now = 0
    /\ twin = EmptyMap
    /\ ParkedPipe
    /\ RegParked

CacheNext ==
    \E fv \in CacheViews, entity_id \in CacheIds, features \in WriteMaps,
       net \in BOOLEAN : DirectWrite(fv, entity_id, features, net)

CacheSpec == CacheInit /\ [][CacheNext]_vars

\* C1: a write is a merge on every backend: a field the key held before a write
\* that succeeded, and that the write leaves out or gives as null, reads back
\* after the write with the value it had.
C1_Claimed ==
    [][\A fv \in CacheViews, entity_id \in CacheIds, features \in WriteMaps :
        LET old == GetEntityFeatures(backend, cache, fv, entity_id)
            new == GetEntityFeatures(backend, cache', fv, entity_id)
        IN  (/\ DirectWrite(fv, entity_id, features, TRUE)
             /\ WriteEntityFeatures(backend, cache, fv, entity_id, features, TRUE).ok
             /\ old # Absent)
            => \A f \in DOMAIN old :
                (f \notin DOMAIN features \/ features[f] = Null)
                    => Holds(new, f, old[f])]_vars

\* C5: on every backend the read of a (view, entity) pair is absent exactly when
\* no write was issued for that pair.
C5_Claimed ==
    \A fv \in CacheViews, entity_id \in CacheIds :
        (GetEntityFeatures(backend, cache, fv, entity_id) = Absent)
            <=> (<<fv, entity_id>> \notin issued)

(***************************************************************************)
(* Registry (registry.py)                                                  *)
(***************************************************************************)
MaxEntries == 2     \* entries of the registry file at most

\* a dataclass called with the keys of a mapping as keyword arguments: a missing or
\* an unexpected key is a TypeError
MakeDataclass(fields, d) ==
    IF DOMAIN d = fields THEN Return(d) ELSE Raise("TypeError")

\* Entity(**fv["entity"])
MakeEntity(d) == MakeDataclass({"name", "value_type"}, d)
\* OfflineSource(**fv["offline"])
MakeOffline(d) == MakeDataclass({"table", "timestamp_column", "entity_column"}, d)
\* Feature(**f)
MakeFeature(d) == MakeDataclass({"name", "value_type"}, d)

\* int(v): a number, or text that is no number
PyInt(v) ==
    IF v.t = "int" THEN Return(v.n)
    ELSE IF v.t = "str" THEN Raise("ValueError")
    ELSE Raise("TypeError")

\* the body of the try block in the loop of Registry.reload for one entry
BuildFeatureView(fv) ==
    IF "entity" \notin DOMAIN fv THEN Raise("KeyError")
    ELSE IF ~MakeEntity(fv.entity).ok THEN Raise("TypeError")
    ELSE IF "offline" \notin DOMAIN fv THEN Raise("KeyError")
    ELSE IF ~MakeOffline(fv.offline).ok THEN Raise("TypeError")
    ELSE IF "features" \notin DOMAIN fv THEN Raise("KeyError")
    ELSE IF \E i \in DOMAIN fv.features : ~MakeFeature(fv.features[i]).ok
    THEN Raise("TypeError")
    ELSE IF "name" \notin DOMAIN fv THEN Raise("KeyError")
    ELSE LET ttl == PyInt(IF "ttl_seconds" \in DOMAIN fv THEN fv.ttl_seconds ELSE IntV(0))
         IN  IF ~ttl.ok THEN ttl
             ELSE Return([name |-> fv.name, entity |-> fv.entity,
                          features |-> fv.features, offline |-> fv.offline,
                          ttl_seconds |-> ttl.value])

\* a load that leaves out the entries it cannot build
LoadSkipping(entries, i, fvs) ==
    LET good == SelectSeq(entries, LAMBDA e : BuildFeatureView(e).ok)
    IN  [ok |-> TRUE, fvs |-> [k \in DOMAIN good |-> BuildFeatureView(good[k]).value]]

\* the loop of Registry.reload from entry i on (i counts from 1; the message of the
\* ValueError names idx = i - 1), fvs being the local list built so far
RECURSIVE LoadFrom(_, _, _)
LoadFrom(entries, i, fvs) ==
    IF i > Len(entries) THEN [ok |-> TRUE, fvs |-> fvs]
    ELSE LET built == BuildFeatureView(entries[i])
         IN  IF built.ok THEN LoadFrom(entries, i + 1, Append(fvs, built.value))
             ELSE [ok |-> FALSE, error |-> "ValueError", idx |-> i - 1, fvs |-> fvs]

\* Registry.reload up to its last line: the file is read and parsed and the local
\* list fvs is built
LoadSource(src) ==
    IF src.kind = "missing"
    THEN [ok |-> FALSE, error |-> "FileNotFoundError", idx |-> -1, fvs |-> << >>]
    ELSE IF src.kind = "unparsable"
    THEN [ok |-> FALSE, error |-> "YAMLError", idx |-> -1, fvs |-> << >>]
    ELSE LoadFrom(src.entries, 1, << >>)

\* Reload that appends to self.feature_views as it goes
ReloadInPlace(current, res) == res.fvs

\* Reload that adds the views it built to the ones held
ReloadAppending(current, res) == IF res.ok THEN current \o res.fvs ELSE current

\* self.feature_views after Registry.reload: the assignment self.feature_views = fvs
\* is the last statement, reached only when no entry raised
Reload(current, res) == IF res.ok THEN res.fvs ELSE current

\* a lookup that gives the first view of the list when no name matches
GetFeatureViewOrFirst(views, name) ==
    IF \E i \in DOMAIN views : views[i].name = name
    THEN views[CHOOSE i \in DOMAIN views : views[i].name = name]
    ELSE IF views = << >> THEN Absent ELSE views[1]

\* a lookup that gives the last view of the list when no name matches
GetFeatureViewOrLast(views, name) ==
    IF \E i \in DOMAIN views : views[i].name = name
    THEN views[CHOOSE i \in DOMAIN views : views[i].name = name]
    ELSE IF views = << >> THEN Absent ELSE views[Len(views)]

\* Registry.get_feature_view
GetFeatureView(views, name) ==
    IF \E i \in DOMAIN views : views[i].name = name
    THEN views[CHOOSE i \in DOMAIN views :
                /\ views[i].name = name
                /\ \A j \in DOMAIN views : views[j].name = name => i <= j]
    ELSE Absent

\* the entries a registry file may hold: well-formed ones, and ones that lack a
\* key, give a dataclass a wrong set of keys, or give a ttl that is no number
GoodEntry(n) ==
    [name |-> n,
     entity |-> [name |-> "user_id", value_type |-> "int"],
     offline |-> [table |-> n, timestamp_column |-> "event_ts",
                  entity_column |-> "user_id"],
     features |-> <<[name |-> "age", value_type |-> "int"]>>]

RegistryNames == {"user_features", "orders"}

EntryWithTtl(e, ttl) ==
    [k \in DOMAIN e \cup {"ttl_seconds"} |-> IF k = "ttl_seconds" THEN ttl ELSE e[k]]

EntryWithout(e, key) == [k \in DOMAIN e \ {key} |-> e[k]]

Entries ==
    {GoodEntry(n) : n \in RegistryNames}
    \cup {EntryWithTtl(GoodEntry("user_features"), IntV(60)),
          EntryWithTtl(GoodEntry("user_features"), StrV("soon")),
          EntryWithout(GoodEntry("user_features"), "offline"),
          [GoodEntry("orders") EXCEPT !.entity = [name |-> "user_id"]]}

Sources ==
    {[kind |-> "missing"], [kind |-> "unparsable"]}
    \cup {[kind |-> "yaml", entries |-> es] :
            es \in UNION {[1..m -> Entries] : m \in 0..MaxEntries}}

\* one edit of the registry file: it is removed, made unparsable, emptied, or an
\* entry is added at its end
Edits(src) ==
    {[kind |-> "missing"], [kind |-> "unparsable"], [kind |-> "yaml", entries |-> << >>]}
    \cup (IF src.kind = "yaml" /\ Len(src.entries) < MaxEntries
          THEN {[kind |-> "yaml", entries |-> Append(src.entries, e)] : e \in Entries}
          ELSE {})

\* the registry file is edited
EditSource(src) ==
    /\ source' = src
    /\ obs' = [taken |-> FALSE]
    /\ UNCHANGED <<feature_views, reg, rel>>
    /\ UNCHANGED cacheVars /\ UNCHANGED pipeVars /\ UNCHANGED streamVars /\ UNCHANGED strategyVars

\* Registry.instance() with no instance yet: Registry.__init__ sets
\* feature_views = [] and reloads; when the reload raises, no instance is kept
RegistryInstance ==
    /\ ~reg.inst
    /\ LET res == LoadSource(source)
       IN  /\ feature_views' = IF res.ok THEN Reload(<< >>, res) ELSE << >>
           /\ reg' = IF res.ok THEN [inst |-> TRUE, last |-> "ok"]
                     ELSE [inst |-> FALSE, last |-> "failed", error |-> res.error,
                           idx |-> res.idx]
    /\ UNCHANGED <<source, rel, obs>>
    /\ UNCHANGED cacheVars /\ UNCHANGED pipeVars /\ UNCHANGED streamVars /\ UNCHANGED strategyVars

\* Registry.instance().reload()
RegistryReload ==
    /\ reg.inst
    /\ LET res == LoadSource(source)
       IN  /\ feature_views' = Reload(feature_views, res)
           /\ reg' = IF res.ok THEN [inst |-> TRUE, last |-> "ok"]
                     ELSE [inst |-> TRUE, last |-> "failed", error |-> res.error,
                           idx |-> res.idx]
    /\ UNCHANGED <<source, rel, obs>>
    /\ UNCHANGED cacheVars /\ UNCHANGED pipeVars /\ UNCHANGED streamVars /\ UNCHANGED strategyVars

\* the names of a list of views, in its order
NamesOf(views) == [i \in DOMAIN views |-> views[i].name]

\* POST /registry/reload: Registry.instance().reload(), then the names of
\* Registry.instance().feature_views.  Registry.instance() builds the instance
\* (which reloads) when there is none.  gone notes the names the snapshot held
\* before and holds no more.
ReloadRegistry ==
    /\ LET res == LoadSource(source)
           held == IF reg.inst THEN feature_views ELSE << >>
           first == IF reg.inst THEN held ELSE Reload(held, res)
       IN  /\ feature_views' = Reload(first, res)
           /\ reg' = IF res.ok
                     THEN [inst |-> TRUE, last |-> "ok",
                           reported |-> NamesOf(feature_views'),
                           gone |-> {held[i].name : i \in DOMAIN held}
                                        \ {feature_views'[i].name :
                                                i \in DOMAIN feature_views'}]
                     ELSE [inst |-> reg.inst, last |-> "failed",
                           error |-> res.error, idx |-> res.idx]
    /\ UNCHANGED <<source, rel, obs>>
    /\ UNCHANGED cacheVars /\ UNCHANGED pipeVars /\ UNCHANGED streamVars /\ UNCHANGED strategyVars

RegistryInit ==
    /\ source \in Sources
    /\ feature_views = << >>
    /\ reg = [inst |-> FALSE, last |-> "none"]
    /\ rel = [pc |-> "idle"]
    /\ obs = [taken |-> FALSE]
    /\ backend = "memory"
    /\ cache = EmptyMap
    /\ issued = {}
    /\ now = 0
    /\ twin = EmptyMap
    /\ ParkedPipe
    /\ ParkedStream
    /\ ParkedStrategy

RegistryNext ==
    \/ \E src \in Edits(source) : EditSource(src)
    \/ RegistryInstance
    \/ RegistryReload
    \/ ReloadRegistry

RegistrySpec == RegistryInit /\ [][RegistryNext]_vars

\* C9: in the snapshot the registry holds, no two feature views have the same name,
\* whatever the registry file contains.
C9_Claimed ==
    \A i, j \in DOMAIN feature_views :
        i # j => feature_views[i].name # feature_views[j].name

\* C10: a reload that fails (file missing, unparsable, or an entry malformed at any
\* position) leaves every lookup as it was: get(name) gives after it what it gave
\* before it, for every name.
C10_FailedReloadKeepsState ==
    [][(RegistryReload /\ ~LoadSource(source).ok) =>
        \A name \in RegistryNames \cup {"unknown"} :
            GetFeatureView(feature_views', name) = GetFeatureView(feature_views, name)
      ]_vars

\* C10 witness: a reload failed on the second entry of the file, after a first
\* entry that is well-formed and differs from what the registry holds
C10_Witness ==
    /\ reg.inst
    /\ reg.last = "failed"
    /\ reg.error = "ValueError"
    /\ reg.idx = 1
    /\ source.kind = "yaml"
    /\ Len(source.entries) >= 2
    /\ BuildFeatureView(source.entries[1]).ok
    /\ ~BuildFeatureView(source.entries[2]).ok
    /\ feature_views # << >>
    /\ feature_views[1] # BuildFeatureView(source.entries[1]).value

(***************************************************************************)
(* Registry.reload statement by statement, with readers in between.  The   *)
(* handlers are coroutines without an await, so the event loop runs each   *)
(* of them whole; here a reader may run between any two statements of a    *)
(* reload, as a reader on another thread could.                            *)
(***************************************************************************)
\* a reload that builds the list in self.feature_views itself
DuringReloadInPlace(current, fvs) == fvs

\* self.feature_views while the loop of Registry.reload runs: the loop appends to
\* the local list fvs
DuringReload(current, fvs) == current

\* Registry.reload up to the loop: the file is looked for, read and parsed
ReloadRead ==
    /\ reg.inst
    /\ rel.pc = "idle"
    /\ IF source.kind = "yaml"
       THEN /\ rel' = [pc |-> "loop", entries |-> source.entries, i |-> 1,
                       fvs |-> << >>, old |-> feature_views]
            /\ feature_views' = DuringReload(feature_views, << >>)
            /\ reg' = reg
       ELSE /\ rel' = rel
            /\ feature_views' = feature_views
            /\ reg' = [inst |-> TRUE, last |-> "failed",
                       error |-> LoadSource(source).error, idx |-> -1]
    /\ obs' = [taken |-> FALSE]
    /\ UNCHANGED source
    /\ UNCHANGED cacheVars /\ UNCHANGED pipeVars /\ UNCHANGED streamVars /\ UNCHANGED strategyVars

\* one iteration of the loop: the entry is built and appended to fvs, or the
\* reload raises
ReloadEntry ==
    /\ rel.pc = "loop"
    /\ rel.i <= Len(rel.entries)
    /\ LET built == BuildFeatureView(rel.entries[rel.i])
       IN  IF built.ok
           THEN /\ rel' = [rel EXCEPT !.i = @ + 1, !.fvs = Append(@, built.value)]
                /\ feature_views' =
                        DuringReload(feature_views, Append(rel.fvs, built.value))
                /\ reg' = reg
           ELSE /\ rel' = [pc |-> "idle"]
                /\ feature_views' = feature_views
                /\ reg' = [inst |-> TRUE, last |-> "failed", error |-> "ValueError",
                           idx |-> rel.i - 1]
    /\ obs' = [taken |-> FALSE]
    /\ UNCHANGED source
    /\ UNCHANGED cacheVars /\ UNCHANGED pipeVars /\ UNCHANGED streamVars /\ UNCHANGED strategyVars

\* the last statement: self.feature_views = fvs
ReloadAssign ==
    /\ rel.pc = "loop"
    /\ rel.i > Len(rel.entries)
    /\ feature_views' = rel.fvs
    /\ rel' = [pc |-> "idle"]
    /\ reg' = [inst |-> TRUE, last |-> "ok"]
    /\ obs' = [taken |-> FALSE]
    /\ UNCHANGED source
    /\ UNCHANGED cacheVars /\ UNCHANGED pipeVars /\ UNCHANGED streamVars /\ UNCHANGED strategyVars

\* a request reads the registry: get_feature_view(name), and the names of the
\* list as reload_registry iterates it.  Noted with it: whether a reload was in
\* flight, the snapshot that reload started from, the list it had built so far
\* and the snapshot it is about to install (if its entries are all well-formed).
ReadRegistry(name) ==
    /\ reg.inst
    /\ obs' = [taken |-> TRUE, name |-> name,
               got |-> GetFeatureView(feature_views, name),
               views |-> feature_views,
               during |-> rel.pc = "loop",
               old |-> IF rel.pc = "loop" THEN rel.old ELSE feature_views,
               built |-> IF rel.pc = "loop" THEN rel.fvs ELSE feature_views,
               new |-> IF rel.pc = "loop" THEN LoadFrom(rel.entries, 1, << >>)
                       ELSE [ok |-> TRUE, fvs |-> feature_views]]
    /\ UNCHANGED <<source, feature_views, reg, rel>>
    /\ UNCHANGED cacheVars /\ UNCHANGED pipeVars /\ UNCHANGED streamVars /\ UNCHANGED strategyVars

\* the names requests look up: the declared ones, and one that is only the
\* beginning of a declared one
LookupNames == RegistryNames \cup {"user"}

SwapInit == RegistryInit

\* the file is edited between reloads: a reload reads it once, before its loop, so
\* an edit while the loop runs shows only to the next reload
SwapNext ==
    \/ \E src \in Edits(source) : rel.pc = "idle" /\ EditSource(src)
    \/ RegistryInstance
    \/ ReloadRead
    \/ ReloadEntry
    \/ ReloadAssign
    \/ \E name \in LookupNames : ReadRegistry(name)

SwapSpec == SwapInit /\ [][SwapNext]_vars

\* C11: whatever a request reads from the registry, also between two statements of
\* a reload, is the complete snapshot from before that reload or the complete
\* snapshot that reload installs: the list read is one of the two, and the view
\* got by name is the one that snapshot gives.
C11_ReloadIsAtomicSwap ==
    obs.taken =>
        \/ /\ obs.views = obs.old
           /\ obs.got = GetFeatureView(obs.old, obs.name)
        \/ /\ obs.new.ok
           /\ obs.views = obs.new.fvs
           /\ obs.got = GetFeatureView(obs.new.fvs, obs.name)

\* C11 witness: a request read the registry while a reload had built a part of a
\* new list that differs from the old snapshot, and read the old snapshot
C11_Witness ==
    /\ obs.taken
    /\ obs.during
    /\ Len(obs.built) >= 1
    /\ obs.new.ok
    /\ obs.built # obs.new.fvs
    /\ obs.built # obs.old
    /\ obs.old # << >>
    /\ obs.new.fvs # obs.old
    /\ obs.views = obs.old

(***************************************************************************)
(* Two materialize calls on the same view at once, their writes            *)
(* interleaved at the await points, and rows ingested in between           *)
(***************************************************************************)
\* an ingest_rows call of one row, as the other requests see it: its commit
IngestOne(r) ==
    /\ Len(table) < MaxRows
    /\ LET res == IngestStep(FV, pkey, table, r)
       IN  /\ res.ok
           /\ table' = Commit(table, <<res.value>>)
    /\ UNCHANGED <<dialect, limit, pkey, ing, mat, prev, calls, wrote>>
    /\ UNCHANGED cacheVars /\ UNCHANGED regVars /\ UNCHANGED streamVars /\ UNCHANGED strategyVars

\* call c: rows = await latest_rows_by_entity(fv, limit=limit).  at notes how many
\* rows the table held when the query ran.
CallQuery(c) ==
    /\ calls[c].pc = "idle"
    /\ \E rows \in LatestRowsByEntity(dialect, FV, table, limit) :
        calls' = [calls EXCEPT ![c] = [pc |-> "writing", rows |-> rows, n |-> 0,
                                       at |-> Len(table)]]
    /\ UNCHANGED <<dialect, limit, pkey, table, ing, mat, prev, wrote>>
    /\ UNCHANGED cacheVars /\ UNCHANGED regVars /\ UNCHANGED streamVars /\ UNCHANGED strategyVars

\* call c: one iteration of the loop.  wrote notes, for the entity, the caller,
\* the row and the entry the store held once the write was done.
CallWrite(c, net) ==
    /\ calls[c].pc = "writing"
    /\ calls[c].n < Len(calls[c].rows)
    /\ LET r == calls[c].rows[calls[c].n + 1]
           id == EntityId(FV, r)
           res == WriteEntityFeatures(backend, cache, FV.name, id,
                                      FeaturePayload(FV, r), net)
       IN  IF res.ok
           THEN /\ cache' = res.cache
                /\ calls' = [calls EXCEPT ![c].n = @ + 1]
                /\ wrote' = [k \in DOMAIN wrote \cup {id} |->
                                IF k = id
                                THEN [by |-> c, row |-> r,
                                      entry |-> res.cache[Key(FV.name, id)]]
                                ELSE wrote[k]]
           ELSE /\ cache' = AfterFailedWrite(res.cache, cache)
                /\ calls' = [calls EXCEPT ![c] =
                                [pc |-> "failed", rows |-> calls[c].rows,
                                 n |-> calls[c].n, at |-> calls[c].at]]
                /\ wrote' = wrote
    /\ UNCHANGED <<dialect, limit, pkey, table, ing, mat, prev>>
    /\ UNCHANGED <<backend, issued, now, twin>> /\ UNCHANGED regVars /\ UNCHANGED streamVars /\ UNCHANGED strategyVars

\* call c: the loop is over, return n
CallDone(c) ==
    /\ calls[c].pc = "writing"
    /\ calls[c].n = Len(calls[c].rows)
    /\ calls' = [calls EXCEPT ![c].pc = "done"]
    /\ UNCHANGED <<dialect, limit, pkey, table, ing, mat, prev, wrote>>
    /\ UNCHANGED cacheVars /\ UNCHANGED regVars /\ UNCHANGED streamVars /\ UNCHANGED strategyVars

TwoInit ==
    /\ backend \in Backends
    /\ cache = EmptyMap
    /\ issued = {}
    /\ now = 0
    /\ twin = EmptyMap
    /\ dialect \in Dialects
    /\ limit = MaxLimit
    /\ pkey = TRUE
    /\ table = << >>
    /\ ing = IngIdle
    /\ mat = MatIdle
    /\ prev = [ok |-> FALSE]
    /\ ParkedCalls
    /\ RegParked

TwoNext ==
    \/ \E r \in StoredRows : IngestOne(r)
    \/ \E c \in Callers : CallQuery(c)
    \/ \E c \in Callers, net \in BOOLEAN : CallWrite(c, net)
    \/ \E c \in Callers : CallDone(c)

TwoSpec == TwoInit /\ [][TwoNext]_vars

\* C12: once two concurrent materialize calls have both completed, however their
\* writes interleaved, the entry of every entity they wrote is the one the last
\* write to that entity left, and it holds the string form of every non-null
\* feature of the row that write carried.
C12_LastWritePerEntityWins ==
    (\A c \in Callers : calls[c].pc = "done") =>
        \A id \in DOMAIN wrote :
            /\ Key(FV.name, id) \in DOMAIN cache
            /\ cache[Key(FV.name, id)] = wrote[id].entry
            /\ \A f \in FeatureCols(FV) :
                wrote[id].row[f] # Null =>
                    Holds(cache[Key(FV.name, id)], f, PyStr(wrote[id].row[f]))

\* C12 witness: both calls completed, each wrote both entities, and the two
\* entities hold the values of different calls
C12_Witness ==
    /\ \A c \in Callers : calls[c].pc = "done" /\ Len(calls[c].rows) = 2
    /\ calls[1].rows # calls[2].rows
    /\ DOMAIN wrote = {"1", "2"}
    /\ wrote["1"].by # wrote["2"].by

(***************************************************************************)
(* The request handlers (api/routes)                                       *)
(***************************************************************************)
\* GET /online/{feature_view}/{entity_id}: the view is looked up in the registry,
\* then the entity in the online store
GetOnline(views, b, c, feature_view, entity_id) ==
    LET fv == GetFeatureView(views, feature_view)
    IN  IF fv = Absent THEN [ok |-> FALSE, status |-> 404,
                             detail |-> "unknown feature_view"]
        ELSE LET data == GetEntityFeatures(b, c, fv.name, entity_id)
             IN  IF data = Absent
                 THEN [ok |-> FALSE, status |-> 404,
                       detail |-> "no features for entity"]
                 ELSE Return([feature_view |-> fv.name, entity_id |-> entity_id,
                              features |-> data])

\* the entity values that have a row in tbl
EntitiesOf(fv, tbl) == {tbl[m][fv.entity_column] : m \in DOMAIN tbl}

\* whether row is a row of tbl with the greatest timestamp of its entity
IsLatestOf(fv, tbl, row) ==
    /\ \E m \in DOMAIN tbl : tbl[m] = row
    /\ \A m \in DOMAIN tbl :
        tbl[m][fv.entity_column] = row[fv.entity_column]
            => row[fv.timestamp_column].n >= tbl[m][fv.timestamp_column].n

\* whether features is the string form of the non-null features of row, and
\* nothing else
IsEncodingOf(fv, features, row) ==
    /\ DOMAIN features \subseteq FeatureCols(fv)
    /\ \A f \in FeatureCols(fv) :
        IF row[f] # Null THEN f \in DOMAIN features /\ features[f] = PyStr(row[f])
        ELSE f \notin DOMAIN features

\* C13: from an empty cache and with the limit not below the number of entities
\* (the handler's limit is 1000), a materialize call that completed reported the
\* number of distinct entities of the table; get_online of every entity with rows
\* gives the string form of a row of that entity with its greatest timestamp, and
\* get_online of an entity with no row is answered "no features for entity".
C13_EndToEnd ==
    (mat.pc = "done" /\ mat.cache0 = EmptyMap
        /\ limit >= Cardinality(EntitiesOf(FV, table))) =>
        /\ mat.result = Return(Cardinality(EntitiesOf(FV, table)))
        /\ \A e \in EntityValues \cup {IntV(999)} :
            LET got == GetOnline(<<FV>>, backend, cache, FV.name, PyStr(e))
            IN  IF e \in EntitiesOf(FV, table)
                THEN /\ got.ok
                     /\ \E m \in DOMAIN table :
                         /\ table[m][FV.entity_column] = e
                         /\ IsLatestOf(FV, table, table[m])
                         /\ IsEncodingOf(FV, got.value.features, table[m])
                ELSE got = [ok |-> FALSE, status |-> 404,
                            detail |-> "no features for entity"]

\* C13 witness: the table holds an older and a newer row of one entity with
\* different values and no row of the other entity; the call reported 1,
\* get_online of the first gives the newer row's values and get_online of the
\* other is answered 404
C13_Witness ==
    /\ mat.pc = "done" /\ mat.cache0 = EmptyMap
    /\ mat.result = Return(1)
    /\ ~GetOnline(<<FV>>, backend, cache, FV.name, "2").ok
    /\ \E a, b \in DOMAIN table :
        /\ table[a].user_id = IntV(1) /\ table[b].user_id = IntV(1)
        /\ table[a].event_ts.n < table[b].event_ts.n
        /\ table[a].age # table[b].age
        /\ GetOnline(<<FV>>, backend, cache, FV.name, "1").ok
        /\ GetOnline(<<FV>>, backend, cache, FV.name, "1").value.features.age
                = PyStr(table[b].age)

\* C14: the result a materialize call got from latest_rows(view, limit) has
\* exactly min(limit, number of distinct entities of the table) rows, each of a
\* different entity, each a row of its entity with the greatest timestamp.
C14_LimitCountsEntities ==
    mat.pc # "idle" =>
        LET entities == Cardinality(EntitiesOf(FV, table))
        IN  /\ Len(mat.rows) = IF limit < entities THEN limit ELSE entities
            /\ \A i, j \in DOMAIN mat.rows :
                i # j => mat.rows[i][FV.entity_column] # mat.rows[j][FV.entity_column]
            /\ \A i \in DOMAIN mat.rows : IsLatestOf(FV, table, mat.rows[i])

\* C14 witness: the limit is 1, the table holds rows of two entities, and the
\* query gave one row
C14_Witness ==
    /\ mat.pc = "writing" /\ mat.n = 0
    /\ limit = 1
    /\ Cardinality(EntitiesOf(FV, table)) = 2
    /\ Len(mat.rows) = 1

\* C15: a materialize call that succeeded returned the number of rows
\* latest_rows(view, limit) gave it, which is not above limit, and issued exactly
\* that many writes to the cache, one per returned row and in their order.
C15_ReturnsEntitiesWritten ==
    mat.pc = "done" =>
        /\ mat.result = Return(Len(mat.rows))
        /\ Len(mat.rows) <= limit
        /\ Len(mat.written) = Len(mat.rows)
        /\ \A i \in DOMAIN mat.rows :
            mat.written[i] = Key(FV.name, EntityId(FV, mat.rows[i]))

\* C15 witness: a call over a table of two entities returned 2 after two writes
C15_Witness ==
    /\ mat.pc = "done"
    /\ mat.result = Return(2)
    /\ Len(mat.written) = 2
    /\ mat.written[1] # mat.written[2]

\* the string forms the values of WriteMaps are to read back with
TextOf(v) ==
    IF v = IntV(28) THEN "28"
    ELSE IF v = IntV(29) THEN "29"
    ELSE IF v = FloatV(3, 0) THEN "3.0"
    ELSE "?"

\* C16: after every write that succeeded, each non-null feature of the write reads
\* back as its string form (29 as "29", 3.0 as "3.0"), and a feature the write
\* gave as null was not stored by it: it is not held, or is held with the value
\* it had before the write.
C16_StringRoundTrip ==
    [][\A fv \in CacheViews, entity_id \in CacheIds, features \in WriteMaps :
        LET old == GetEntityFeatures(backend, cache, fv, entity_id)
            new == GetEntityFeatures(backend, cache', fv, entity_id)
        IN  (/\ DirectWrite(fv, entity_id, features, TRUE)
             /\ WriteEntityFeatures(backend, cache, fv, entity_id, features, TRUE).ok)
            => \A f \in DOMAIN features :
                IF features[f] # Null THEN Holds(new, f, TextOf(features[f]))
                ELSE \/ HoldsNothing(new, f)
                     \/ old # Absent /\ f \in DOMAIN old /\ Holds(new, f, old[f])]_vars

\* C16 witness: the integer 29 and the float 3.0 were written and read back as
\* "29" and "3.0"
C16_Witness ==
    /\ <<"v", "1">> \in issued
    /\ GetEntityFeatures(backend, cache, "v", "1")
            = [age |-> "29", purchases_7d |-> "3.0"]

\* the ttl_seconds an entry declares: 0 when it declares none
DeclaredTtl(e) == IF "ttl_seconds" \in DOMAIN e THEN e.ttl_seconds.n ELSE 0

\* C17: after a reload request that succeeded the registry holds exactly the
\* views the file declared at that time, in the order of the file, whatever it
\* held before, and the request reported exactly their names.
C17_ReloadReplacesCatalog ==
    [][(ReloadRegistry /\ LoadSource(source).ok) =>
        /\ Len(feature_views') = Len(source.entries)
        /\ \A i \in DOMAIN source.entries :
            /\ feature_views'[i].name = source.entries[i].name
            /\ feature_views'[i].entity = source.entries[i].entity
            /\ feature_views'[i].features = source.entries[i].features
            /\ feature_views'[i].offline = source.entries[i].offline
            /\ feature_views'[i].ttl_seconds = DeclaredTtl(source.entries[i])
        /\ reg'.reported = [i \in DOMAIN source.entries |-> source.entries[i].name]
      ]_vars

\* C17 witness: a reload request replaced a snapshot holding user_features by one
\* that declares orders only, and reported orders
C17_Witness ==
    /\ reg.last = "ok"
    /\ "reported" \in DOMAIN reg
    /\ reg.reported = <<"orders">>
    /\ reg.gone = {"user_features"}
    /\ NamesOf(feature_views) = <<"orders">>

(***************************************************************************)
(* Loading a registry file that grows entry by entry, with entries that    *)
(* lack a required field                                                   *)
(***************************************************************************)
\* entries lacking one required field each
Incomplete ==
    LET e == GoodEntry("user_features")
    IN  {EntryWithout(e, "name"), EntryWithout(e, "entity"),
         EntryWithout(e, "offline"), EntryWithout(e, "features"),
         [e EXCEPT !.entity = [value_type |-> "int"]],
         [e EXCEPT !.entity = [name |-> "user_id"]],
         [e EXCEPT !.offline = [timestamp_column |-> "event_ts",
                                entity_column |-> "user_id"]],
         [e EXCEPT !.offline = [table |-> "user_features",
                                entity_column |-> "user_id"]],
         [e EXCEPT !.offline = [table |-> "user_features",
                                timestamp_column |-> "event_ts"]],
         [e EXCEPT !.features = <<[value_type |-> "int"]>>],
         [e EXCEPT !.features = <<[name |-> "age", value_type |-> "int"],
                                  [name |-> "country"]>>]}

\* an entry is added at the end of the registry file
AppendEntry(e) ==
    /\ source.kind = "yaml"
    /\ Len(source.entries) < MaxEntries
    /\ EditSource([kind |-> "yaml", entries |-> Append(source.entries, e)])

LoadInit ==
    /\ source = [kind |-> "yaml", entries |-> << >>]
    /\ feature_views = << >>
    /\ reg = [inst |-> FALSE, last |-> "none"]
    /\ rel = [pc |-> "idle"]
    /\ obs = [taken |-> FALSE]
    /\ backend = "memory"
    /\ cache = EmptyMap
    /\ issued = {}
    /\ now = 0
    /\ twin = EmptyMap
    /\ ParkedPipe
    /\ ParkedStream
    /\ ParkedStrategy

LoadNext ==
    \/ \E e \in Incomplete \cup {GoodEntry(n) : n \in RegistryNames} : AppendEntry(e)
    \/ RegistryInstance
    \/ RegistryReload
    \/ ReloadRegistry

LoadSpec == LoadInit /\ [][LoadNext]_vars

\* whether an entry lacks name, entity{name, value_type},
\* offline{table, timestamp_column, entity_column} or features{name, value_type}
Lacks(e) ==
    \/ "name" \notin DOMAIN e
    \/ "entity" \notin DOMAIN e
    \/ "offline" \notin DOMAIN e
    \/ "features" \notin DOMAIN e
    \/ ~({"name", "value_type"} \subseteq DOMAIN e.entity)
    \/ ~({"table", "timestamp_column", "entity_column"} \subseteq DOMAIN e.offline)
    \/ \E k \in DOMAIN e.features :
        ~({"name", "value_type"} \subseteq DOMAIN e.features[k])

\* C18: a load (at construction, by reload, or by the reload request) of a file
\* in which an entry lacks a required field fails with the validation error that
\* names the position of the first such entry, and the views the registry holds
\* are the ones it held: none of that file becomes visible.
C18_MalformedEntryRejectsLoad ==
    [][((RegistryInstance \/ RegistryReload \/ ReloadRegistry)
            /\ \E i \in DOMAIN source.entries : Lacks(source.entries[i])) =>
        /\ reg'.last = "failed"
        /\ reg'.error = "ValueError"
        /\ Lacks(source.entries[reg'.idx + 1])
        /\ \A i \in 1..reg'.idx : ~Lacks(source.entries[i])
        /\ feature_views' = feature_views
        /\ reg'.inst = reg.inst
      ]_vars

\* C18 witness: a registry built from the empty file reloaded a file whose
\* first entry is well-formed and whose second lacks the name of a feature; the
\* reload failed at index 1 and the registry holds no view
C18_Witness ==
    /\ reg.inst
    /\ reg.last = "failed"
    /\ reg.error = "ValueError"
    /\ reg.idx = 1
    /\ Len(source.entries) = 2
    /\ ~Lacks(source.entries[1])
    /\ "features" \in DOMAIN source.entries[2]
    /\ source.entries[2].features = <<[value_type |-> "int"]>>
    /\ feature_views = << >>

\* C19: a lookup by name gives a view of the snapshot whose name is exactly the
\* name asked for when the snapshot holds one, gives absent otherwise (never an
\* error), and leaves the registry as it was.
C19_LookupByExactName ==
    obs.taken =>
        /\ IF \E i \in DOMAIN obs.views : obs.views[i].name = obs.name
           THEN \E i \in DOMAIN obs.views :
                   obs.views[i].name = obs.name /\ obs.got = obs.views[i]
           ELSE obs.got = Absent
        /\ feature_views = obs.views

\* C19 witness: the snapshot holds user_features and a lookup of "user" gave absent
C19_Witness ==
    /\ obs.taken
    /\ obs.name = "user"
    /\ obs.got = Absent
    /\ \E i \in DOMAIN obs.views : obs.views[i].name = "user_features"

(***************************************************************************)
(* Ingest calls alone                                                      *)
(***************************************************************************)
IngestInit ==
    /\ backend = "memory"
    /\ cache = EmptyMap
    /\ issued = {}
    /\ now = 0
    /\ twin = EmptyMap
    /\ dialect \in Dialects
    /\ limit = MaxLimit
    /\ pkey \in BOOLEAN
    /\ table = << >>
    /\ ing = IngIdle
    /\ mat = MatIdle
    /\ prev = [ok |-> FALSE]
    /\ ParkedCalls
    /\ RegParked

IngestNext ==
    \/ IngestBegin
    \/ \E r \in InputRows : IngestRow(r)
    \/ IngestCommit
    \/ IngestReturn

IngestSpec == IngestInit /\ [][IngestNext]_vars

\* C20: the row an ingest call appends for an input row has exactly the entity
\* column, the timestamp column and the declared feature columns; a column the
\* input row lacks is null in it, the other columns have the input's values (the
\* timestamp as the instant its text gives), and a column the view does not
\* declare is not in it.
C20_AppendedRowColumns ==
    [][\A r \in InputRows :
        (IngestRow(r) /\ ing'.pc = "tx") =>
            LET new == ing'.buf[Len(ing'.buf)]
            IN  /\ Len(ing'.buf) = Len(ing.buf) + 1
                /\ DOMAIN new = {"user_id", "event_ts", "age", "purchases_7d"}
                /\ \A c \in DOMAIN new :
                    IF c \notin DOMAIN r THEN new[c] = Null
                    ELSE IF c = "event_ts"
                    THEN new[c].t = "datetime" /\ new[c].n = r[c].n
                    ELSE new[c] = r[c]]_vars

\* C20 witness: a committed row came from an input row that lacks purchases_7d
\* and has a column the view does not declare: it holds null for the one and
\* nothing for the other
C20_Witness ==
    /\ ing.pc = "done"
    /\ \E m \in DOMAIN table :
        /\ table[m].purchases_7d = Null
        /\ "extra" \notin DOMAIN table[m]
        /\ \E r \in InputRows :
            /\ "extra" \in DOMAIN r
            /\ "purchases_7d" \notin DOMAIN r
            /\ IngestStep(FV, FALSE, << >>, r) = Return(table[m])

\* C21: ingest is purely additive: no step of an ingest call, whether the call
\* goes on to succeed or to fail, changes or removes a row the historical table
\* held; the table before the step is the beginning of the table after it.
C21_IngestOnlyAppends ==
    [][/\ Len(table') >= Len(table)
       /\ SubSeq(table', 1, Len(table)) = table]_vars

\* C21 witness: a call that found a row in the table committed another one after
\* it, and the row it found is still the first
C21_Witness ==
    /\ ing.pc = "done"
    /\ Len(ing.before) = 1
    /\ Len(table) = 2
    /\ table[1] = ing.before[1]
    /\ table[2] # table[1]

(***************************************************************************)
(* The online store as time passes.  FeatureView.ttl_seconds is declared   *)
(* (models.py) and no line of online.py reads it: HSET is sent without an  *)
(* EXPIRE, the dict keeps what it is given.                                *)
(***************************************************************************)
MaxElapsed == 2     \* the seconds that pass at most

\* fv.ttl_seconds of the views written to: one that declares a second, one that
\* declares none (0)
TtlSeconds(fv) == IF fv = "v" THEN 1 ELSE 0

\* a store whose entries are gone once the ttl_seconds of their view have passed
AfterElapsedExpiring(c, t) ==
    [k \in {k \in DOMAIN c :
                ~\E fv \in CacheViews, entity_id \in CacheIds :
                    /\ k = Key(fv, entity_id)
                    /\ TtlSeconds(fv) > 0
                    /\ t >= TtlSeconds(fv)} |-> c[k]]

\* the store once t seconds have passed: no write set an expiry, the store holds
\* what it held
AfterElapsed(c, t) == c

\* a second passes with no call
Elapse ==
    /\ now < MaxElapsed
    /\ now' = now + 1
    /\ cache' = AfterElapsed(cache, now')
    /\ UNCHANGED <<backend, issued, twin>>
    /\ UNCHANGED pipeVars /\ UNCHANGED regVars /\ UNCHANGED streamVars /\ UNCHANGED strategyVars

TtlInit == CacheInit

TtlNext ==
    \/ \E fv \in CacheViews, entity_id \in CacheIds, features \in WriteMaps,
          net \in BOOLEAN : DirectWrite(fv, entity_id, features, net)
    \/ Elapse

TtlSpec == TtlInit /\ [][TtlNext]_vars

\* C22: ttl_seconds is never enforced: no step removes a cache entry, a read that
\* gave an entry gives an entry after every step, whatever the ttl_seconds of the
\* view and the time elapsed, and it gives the same entry unless the step is a
\* write to the storage key of the pair.
C22_TtlNeverEnforced ==
    [][/\ \A k \in DOMAIN cache : k \in DOMAIN cache'
       /\ \A fv \in CacheViews, entity_id \in CacheIds :
            LET old == GetEntityFeatures(backend, cache, fv, entity_id)
                new == GetEntityFeatures(backend, cache', fv, entity_id)
            IN  old # Absent =>
                    /\ new # Absent
                    /\ new # old =>
                        \E fv2 \in CacheViews, id2 \in CacheIds,
                           features \in WriteMaps, net \in BOOLEAN :
                            /\ Key(fv2, id2) = Key(fv, entity_id)
                            /\ DirectWrite(fv2, id2, features, net)]_vars

\* C22 witness: the entry of a view that declares a ttl of one second is read two
\* seconds after the only write to it
C22_Witness ==
    /\ now = 2
    /\ TtlSeconds("v") = 1
    /\ issued = {<<"v", "1">>}
    /\ GetEntityFeatures(backend, cache, "v", "1") = [age |-> "29"]

(***************************************************************************)
(* The writes of one materialize call, each from the moment it is started  *)
(* to the moment its await returns                                         *)
(***************************************************************************)
\* a loop that starts the write of any row not yet started, the writes before it
\* in flight or not (the writes handed to asyncio.gather)
MayStartGathered(started, flying, total, i) ==
    /\ i \in 1..total
    /\ \A k \in DOMAIN started : started[k] # i

\* for r in rows: await online.write_entity_features(...): the write of row i is
\* started when the loop reaches it, which is when the write of row i - 1 has
\* returned and none is in flight
MayStart(started, flying, total, i) ==
    /\ i \in 1..total
    /\ flying = {}
    /\ i = Len(started) + 1

\* rows = await latest_rows_by_entity(fv, limit=limit); n = 0.  started are the
\* rows whose write was started, in that order, flying the ones whose write has
\* not returned.
MatQueryRows ==
    /\ mat.pc = "idle"
    /\ \E rows \in LatestRowsByEntity(dialect, FV, table, limit) :
        mat' = [pc |-> "writing", rows |-> rows, n |-> 0, cache0 |-> cache,
                written |-> << >>, started |-> << >>, flying |-> {}]
    /\ UNCHANGED <<dialect, limit, pkey, table, ing, prev, calls, wrote>>
    /\ UNCHANGED cacheVars /\ UNCHANGED regVars /\ UNCHANGED streamVars /\ UNCHANGED strategyVars

\* online.write_entity_features(fv, entity_id, payload) is called for row i
WriteStart(i) ==
    /\ mat.pc = "writing"
    /\ MayStart(mat.started, mat.flying, Len(mat.rows), i)
    /\ mat' = [mat EXCEPT !.started = Append(@, i), !.flying = @ \cup {i}]
    /\ UNCHANGED <<dialect, limit, pkey, table, ing, prev, calls, wrote>>
    /\ UNCHANGED cacheVars /\ UNCHANGED regVars /\ UNCHANGED streamVars /\ UNCHANGED strategyVars

\* the await of the write of row i returns, n += 1; or it raises, and the call
\* ends with the exception
WriteReturn(i, net) ==
    /\ mat.pc = "writing"
    /\ i \in mat.flying
    /\ LET r == mat.rows[i]
           res == WriteEntityFeatures(backend, cache, FV.name, EntityId(FV, r),
                                      FeaturePayload(FV, r), net)
       IN  IF res.ok
           THEN /\ cache' = res.cache
                /\ mat' = [mat EXCEPT !.n = @ + 1,
                                      !.flying = @ \ {i},
                                      !.written = Append(@, Key(FV.name, EntityId(FV, r)))]
           ELSE /\ cache' = AfterFailedWrite(res.cache, mat.cache0)
                /\ mat' = [pc |-> "failed", rows |-> mat.rows, n |-> mat.n,
                           cache0 |-> mat.cache0, written |-> mat.written,
                           started |-> mat.started, flying |-> mat.flying \ {i},
                           result |-> Raise("StoreWriteError")]
    /\ UNCHANGED <<dialect, limit, pkey, table, ing, prev, calls, wrote>>
    /\ UNCHANGED <<backend, issued, now, twin>> /\ UNCHANGED regVars /\ UNCHANGED streamVars /\ UNCHANGED strategyVars

\* every write has returned: return n
MatDoneRows ==
    /\ mat.pc = "writing"
    /\ mat.n = Len(mat.rows)
    /\ mat' = [mat EXCEPT !.pc = "done"]
    /\ UNCHANGED <<dialect, limit, pkey, table, ing, prev, calls, wrote>>
    /\ UNCHANGED cacheVars /\ UNCHANGED regVars /\ UNCHANGED streamVars /\ UNCHANGED strategyVars

SeqInit == MatInit

SeqNext ==
    \/ MatQueryRows
    \/ \E i \in 1..MaxRows : WriteStart(i)
    \/ \E i \in 1..MaxRows, net \in BOOLEAN : WriteReturn(i, net)
    \/ MatDoneRows
    \/ MatReturn

SeqSpec == SeqInit /\ [][SeqNext]_vars

\* C23: within one materialize call the writes are started in the order of the
\* reader's rows, at most one write of the call is in flight at any time, the
\* write of row i + 1 is started only when the write of row i has returned, and
\* the writes took effect in the order of the rows.
C23_WritesAreSequential ==
    mat.pc # "idle" =>
        /\ Cardinality(mat.flying) <= 1
        /\ mat.started = [k \in 1..Len(mat.started) |-> k]
        /\ \A i \in mat.flying : i = Len(mat.started) /\ mat.n = i - 1
        /\ Len(mat.written) = mat.n
        /\ \A k \in 1..mat.n :
            mat.written[k] = Key(FV.name, EntityId(FV, mat.rows[k]))

\* C23 witness: the write of the second row of two is in flight, after the write
\* of the first returned
C23_Witness ==
    /\ mat.pc = "writing"
    /\ Len(mat.rows) = 2
    /\ mat.flying = {2}
    /\ mat.n = 1
    /\ Len(mat.written) = 1

\* C24: the key derivation is injective: a write to one (view name, entity id)
\* pair never shows through a read of another pair, also when a name or an id
\* holds ":entity:"; a pair no write was issued for reads as absent.
C24_Claimed ==
    \A fv \in CacheViews, entity_id \in CacheIds :
        <<fv, entity_id>> \notin issued
            => GetEntityFeatures(backend, cache, fv, entity_id) = Absent

\* C25 as claimed: across every interleaving of ingest calls and concurrent
\* materialize calls, the timestamp of the row an entity's cache entry reflects
\* never decreases from one cache write to the next.
C25_Claimed ==
    [][\A id \in DOMAIN wrote :
        wrote'[id].row[FV.timestamp_column].n >= wrote[id].row[FV.timestamp_column].n
      ]_vars

\* C25 as amended: the entry of an entity is the one the last write left (last
\* write per entity wins).  From one cache write to the next the timestamp of the
\* row reflected does not decrease when the later write is of a call that read
\* its rows no earlier than the call of the write before; it decreases only when
\* a call that read its rows earlier, from a shorter table, writes later.
C25_RegressesOnlyByEarlierReader ==
    [][\A id \in DOMAIN wrote :
        \/ wrote'[id].row[FV.timestamp_column].n >= wrote[id].row[FV.timestamp_column].n
        \/ calls[wrote'[id].by].at < calls[wrote[id].by].at
      ]_vars

\* C25 witness: both calls completed; the entry of entity 1 was written last by
\* the call that read the shorter table, and reflects a row older than the one
\* the other call read
C25_Witness ==
    /\ \A c \in Callers : calls[c].pc = "done"
    /\ "1" \in DOMAIN wrote
    /\ \E c \in Callers :
        /\ wrote["1"].by # c
        /\ calls[wrote["1"].by].at < calls[c].at
        /\ \E i \in DOMAIN calls[c].rows :
            /\ calls[c].rows[i].user_id = IntV(1)
            /\ calls[c].rows[i].event_ts.n > wrote["1"].row.event_ts.n
    /\ cache[Key(FV.name, "1")] = wrote["1"].entry

(***************************************************************************)
(* A RedisOnlineStore and a MemoryOnlineStore given the same writes, from  *)
(* empty stores and with no failure of the network                         *)
(***************************************************************************)
\* the same write_entity_features(fv, entity_id, features) on both stores; the one
\* on Redis may raise (an empty mapping), and then leaves its store as it was
WriteBoth(fv, entity_id, features) ==
    /\ cache' = RedisWrite(cache, fv, entity_id, features, TRUE).cache
    /\ twin' = MemoryWrite(twin, fv, entity_id, features, TRUE).cache
    /\ issued' = issued \cup {<<fv, entity_id>>}
    /\ UNCHANGED <<backend, now>>
    /\ UNCHANGED pipeVars /\ UNCHANGED regVars /\ UNCHANGED streamVars /\ UNCHANGED strategyVars

BothInit ==
    /\ backend = "redis"
    /\ cache = EmptyMap
    /\ issued = {}
    /\ now = 0
    /\ twin = EmptyMap
    /\ ParkedPipe
    /\ RegParked

BothNext ==
    \E entity_id \in CacheIds, features \in WriteMaps : WriteBoth("v", entity_id, features)

BothSpec == BothInit /\ [][BothNext]_vars

\* C26: the two backends are observationally equivalent: after every sequence of
\* writes from empty stores, every read gives the same result on the in-memory
\* store and on the Redis store (absent on both, or the same field map).
C26_Claimed ==
    \A entity_id \in CacheIds :
        RedisGet(cache, "v", entity_id) = MemoryGet(twin, "v", entity_id)

\* the rows of a result, as a set
RowsOf(rows) == {rows[i] : i \in DOMAIN rows}

\* whether no entity has two rows of tbl sharing its greatest timestamp
NoTies(fv, tbl) ==
    \A i, j \in DOMAIN tbl :
        (i # j /\ IsLatestOf(fv, tbl, tbl[i]) /\ IsLatestOf(fv, tbl, tbl[j]))
            => tbl[i][fv.entity_column] # tbl[j][fv.entity_column]

\* C27: the two query branches are equivalent: on every table in which no entity
\* has two rows sharing its greatest timestamp, and for every limit, every result
\* of the DISTINCT ON branch and every result of the ROW_NUMBER branch hold the
\* same entities with the same row for each.
C27_Claimed ==
    NoTies(FV, table) =>
        \A a \in PostgresLatest(FV, table, limit), b \in WindowLatest(FV, table, limit) :
            RowsOf(a) = RowsOf(b)

(***************************************************************************)
(* The endpoints over a loaded registry: POST /materialize/{feature_view}, *)
(* GET /online/{feature_view}/{entity_id}, POST /offline/ingest/{feature_view} *)
(***************************************************************************)
\* raise HTTPException(status_code=..., detail=...)
HTTPException(status_code, detail) ==
    [ok |-> FALSE, status |-> status_code, detail |-> detail]

\* the registry files of the application: no view, one view, both views
ApiSources ==
    {[kind |-> "yaml", entries |-> es] :
        es \in {<< >>, <<GoodEntry("user_features")>>, <<GoodEntry("orders")>>,
                <<GoodEntry("orders"), GoodEntry("user_features")>>}}

\* the rows the ingest requests carry: one of each entity, and one whose
\* timestamp is no ISO-8601 text
ApiRows ==
    {[user_id |-> IntV(e), event_ts |-> DateTime(1), age |-> IntV(28),
      purchases_7d |-> FloatV(3, 0)] : e \in {1, 2}}
    \cup {[user_id |-> IntV(2), event_ts |-> BadText, age |-> IntV(28),
           purchases_7d |-> FloatV(3, 0)]}

\* POST /materialize/{feature_view}: an unknown view is answered 404; a known one
\* begins materialize_feature_view (the pipeline is the one of user_features)
Materialize(feature_view) ==
    /\ reg.inst
    /\ mat.pc = "idle"
    /\ LET fv == GetFeatureView(feature_views, feature_view)
       IN  IF fv = Absent
           THEN /\ mat' = [pc |-> "rejected",
                           result |-> HTTPException(404, "unknown feature_view")]
                /\ UNCHANGED <<dialect, limit, pkey, table, ing, prev, calls, wrote>>
                /\ UNCHANGED cacheVars /\ UNCHANGED regVars /\ UNCHANGED streamVars /\ UNCHANGED strategyVars
           ELSE /\ fv.name = FV.name
                /\ MatQuery

\* POST /offline/ingest/{feature_view}: an unknown view is answered 404; for a
\* known one ingest_rows begins
Ingest(feature_view) ==
    /\ reg.inst
    /\ ing.pc = "idle"
    /\ LET fv == GetFeatureView(feature_views, feature_view)
       IN  IF fv = Absent
           THEN /\ ing' = [pc |-> "rejected",
                           result |-> HTTPException(404, "unknown feature_view")]
                /\ UNCHANGED <<dialect, limit, pkey, table, mat, prev, calls, wrote>>
                /\ UNCHANGED cacheVars /\ UNCHANGED regVars /\ UNCHANGED streamVars /\ UNCHANGED strategyVars
           ELSE /\ fv.name = FV.name
                /\ IngestBegin

\* GET /online/{feature_view}/{entity_id}; obs keeps the answer
GetOnlineRequest(feature_view, entity_id) ==
    /\ reg.inst
    /\ obs' = [taken |-> TRUE, name |-> feature_view, entity_id |-> entity_id,
               got |-> GetOnline(feature_views, backend, cache, feature_view, entity_id)]
    /\ UNCHANGED <<source, feature_views, reg, rel>>
    /\ UNCHANGED cacheVars /\ UNCHANGED pipeVars /\ UNCHANGED streamVars /\ UNCHANGED strategyVars

\* the client of a rejected request has its answer
RejectedReturn ==
    /\ \/ mat.pc = "rejected" /\ mat' = MatIdle /\ ing' = ing
       \/ ing.pc = "rejected" /\ ing' = IngIdle /\ mat' = mat
    /\ UNCHANGED <<dialect, limit, pkey, table, prev, calls, wrote>>
    /\ UNCHANGED cacheVars /\ UNCHANGED regVars /\ UNCHANGED streamVars /\ UNCHANGED strategyVars

ApiInit ==
    /\ source \in ApiSources
    /\ feature_views = << >>
    /\ reg = [inst |-> FALSE, last |-> "none"]
    /\ rel = [pc |-> "idle"]
    /\ obs = [taken |-> FALSE]
    /\ backend \in Backends
    /\ cache = EmptyMap
    /\ issued = {}
    /\ now = 0
    /\ twin = EmptyMap
    /\ ParkedPipe
    /\ ParkedStream
    /\ ParkedStrategy

ApiNext ==
    \/ RegistryInstance
    \/ \E feature_view \in LookupNames : Materialize(feature_view)
    \/ \E net \in BOOLEAN : MatWrite(net)
    \/ MatDone
    \/ MatReturn
    \/ \E feature_view \in LookupNames : Ingest(feature_view)
    \/ \E r \in ApiRows : IngestRow(r)
    \/ IngestCommit
    \/ IngestReturn
    \/ \E feature_view \in LookupNames : GetOnlineRequest(feature_view, "1")
    \/ RejectedReturn

ApiSpec == ApiInit /\ [][ApiNext]_vars

\* whether no view of the snapshot has the name
Unknown(views, name) == ~\E i \in DOMAIN views : views[i].name = name

\* C29: a materialize, get_online or ingest request that names a view the active
\* registry snapshot does not hold is answered not found (404, "unknown
\* feature_view"), and the historical table and the cache are after it what they
\* were before it; no call of the pipeline is begun for it.
C29_UnknownViewRejected ==
    [][\A feature_view \in LookupNames :
        Unknown(feature_views, feature_view) =>
            /\ Materialize(feature_view) =>
                    /\ mat'.pc = "rejected"
                    /\ mat'.result = HTTPException(404, "unknown feature_view")
                    /\ table' = table /\ cache' = cache
            /\ Ingest(feature_view) =>
                    /\ ing'.pc = "rejected"
                    /\ ing'.result = HTTPException(404, "unknown feature_view")
                    /\ table' = table /\ cache' = cache
            /\ GetOnlineRequest(feature_view, "1") =>
                    /\ obs'.got = HTTPException(404, "unknown feature_view")
                    /\ table' = table /\ cache' = cache
      ]_vars

\* C29 witness: the snapshot holds user_features, the table and the cache hold
\* entity 1, and an ingest request for "user" stands rejected with 404 while
\* get_online for "user" was answered 404 too
C29_Witness ==
    /\ reg.inst
    /\ NamesOf(feature_views) = <<"user_features">>
    /\ ing.pc = "rejected"
    /\ ing.result.status = 404
    /\ obs.taken /\ obs.name = "user" /\ obs.got.status = 404
    /\ Len(table) >= 1
    /\ Read("1") # Absent

\* C28: ingest leaves the cache unchanged: every step of an ingest request, of
\* one that succeeds, one that fails and one that is rejected, leaves every
\* read(view, entity) as it was, also while a materialize call is in flight; the
\* online store changes only in a write of a materialize call.
C28_IngestLeavesCache ==
    [][/\ ing' # ing =>
            \A e \in EntityValues :
                GetEntityFeatures(backend', cache', FV.name, PyStr(e)) = Read(PyStr(e))
       /\ cache' # cache => \E net \in BOOLEAN : MatWrite(net)]_vars

\* C28 witness: after a materialize call stored entity 1, an ingest request
\* committed a row of entity 2 and a later one failed on its timestamp; entity 1
\* reads as stored and entity 2 reads absent
C28_Witness ==
    /\ ing.pc = "failed"
    /\ mat.pc = "idle"
    /\ Len(table) = 2
    /\ table[1].user_id = IntV(1) /\ table[2].user_id = IntV(2)
    /\ Holds(Read("1"), "age", "28")
    /\ Read("2") = Absent

(***************************************************************************)
(* FeatureStreamProcessor (streaming/consumer.py): start() with its loop,  *)
(* stop() called from another task, and _process_batch with a handler or   *)
(* with the default ingestion into the feature store                       *)
(***************************************************************************)
BatchSize == 2      \* batch_size
MaxMessages == 3    \* messages the stream delivers at most

\* the offsets of the messages of the stream
Messages == 1..MaxMessages

\* how _process_batch handles a batch: with the handler given to start(), or by
\* ingesting message by message into the feature store
Modes == {"handler", "store"}

\* self._batch.extend(batch) in the except block
Extend(pending, batch) == pending \o batch

\* m was handled once more
HandledOnce(handled, m) == [handled EXCEPT ![m] = @ + 1]

\* every message of batch was handled once more (the handler returned)
RECURSIVE HandledAll(_, _)
HandledAll(handled, batch) ==
    IF batch = << >> THEN handled
    ELSE HandledAll(HandledOnce(handled, Head(batch)), Tail(batch))

\* the first lines of _process_batch: batch = self._batch; self._batch = []; where
\* is the call site: in the loop, or after it
BeginBatch(p, pending, where) ==
    [p EXCEPT !.pc = "processing", !.work = pending, !.batch = << >>, !.k = 0,
              !.where = where, !.last = [done |-> FALSE]]

\* _process_batch returns to its call site; last keeps the batch and the outcome
EndBatch(p, ok) ==
    [p EXCEPT !.pc = IF p.where = "loop" THEN "loop" ELSE "returned",
              !.work = << >>,
              !.batch = IF ok THEN @ ELSE Extend(@, p.work),
              !.last = [done |-> TRUE, ok |-> ok, batch |-> p.work]]

\* start() is called: await self.consumer.start()
Start ==
    /\ proc.pc = "new"
    /\ proc' = [proc EXCEPT !.pc = "starting"]
    /\ UNCHANGED cacheVars /\ UNCHANGED pipeVars /\ UNCHANGED regVars
    /\ UNCHANGED strategyVars

\* the consumer has started: self._running = True
StartResumed ==
    /\ proc.pc = "starting"
    /\ proc' = [proc EXCEPT !.pc = "loop", !.running = TRUE]
    /\ UNCHANGED cacheVars /\ UNCHANGED pipeVars /\ UNCHANGED regVars
    /\ UNCHANGED strategyVars

\* stop(), from another task, once start() was called: self._running = False
Stop ==
    /\ proc.pc \notin {"new", "returned"}
    /\ ~proc.stopped
    /\ proc' = [proc EXCEPT !.running = FALSE, !.stopped = TRUE]
    /\ UNCHANGED cacheVars /\ UNCHANGED pipeVars /\ UNCHANGED regVars
    /\ UNCHANGED strategyVars

\* while self._running: the loop goes on to consume(), or is left; after the loop
\* a batch that is not empty is processed, and start() returns
LoopTest ==
    /\ proc.pc = "loop"
    /\ proc' = IF proc.running THEN [proc EXCEPT !.pc = "consuming"]
               ELSE IF proc.batch # << >> THEN BeginBatch(proc, proc.batch, "final")
               ELSE [proc EXCEPT !.pc = "returned"]
    /\ UNCHANGED cacheVars /\ UNCHANGED pipeVars /\ UNCHANGED regVars
    /\ UNCHANGED strategyVars

\* msg = await self.consumer.consume() returns None (a timeout)
ConsumeNone ==
    /\ proc.pc = "consuming"
    /\ proc' = [proc EXCEPT !.pc = "loop"]
    /\ UNCHANGED cacheVars /\ UNCHANGED pipeVars /\ UNCHANGED regVars
    /\ UNCHANGED strategyVars

\* msg = await self.consumer.consume() returns the next message: it is appended,
\* and a batch that is full is processed
Consume ==
    /\ proc.pc = "consuming"
    /\ proc.next \in Messages
    /\ LET pending == Append(proc.batch, proc.next)
           p == [proc EXCEPT !.next = @ + 1, !.batch = pending]
       IN  proc' = IF Len(pending) >= BatchSize THEN BeginBatch(p, pending, "loop")
                   ELSE [p EXCEPT !.pc = "loop"]
    /\ UNCHANGED cacheVars /\ UNCHANGED pipeVars /\ UNCHANGED regVars
    /\ UNCHANGED strategyVars

\* await handler(batch) returns, or raises an Exception
HandlerReturn(ok) ==
    /\ proc.pc = "processing"
    /\ proc.mode = "handler"
    /\ proc' = IF ok THEN [EndBatch(proc, TRUE) EXCEPT
                                !.handled = HandledAll(@, proc.work)]
               ELSE EndBatch(proc, FALSE)
    /\ UNCHANGED cacheVars /\ UNCHANGED pipeVars /\ UNCHANGED regVars
    /\ UNCHANGED strategyVars

\* for msg in batch: await self._ingest_message(msg) returns, or raises
IngestMessage(ok) ==
    /\ proc.pc = "processing"
    /\ proc.mode = "store"
    /\ proc.k < Len(proc.work)
    /\ proc' = IF ok THEN [proc EXCEPT !.k = @ + 1,
                                       !.handled = HandledOnce(@, proc.work[proc.k + 1])]
               ELSE EndBatch(proc, FALSE)
    /\ UNCHANGED cacheVars /\ UNCHANGED pipeVars /\ UNCHANGED regVars
    /\ UNCHANGED strategyVars

\* the loop over the batch is over: _process_batch returns
IngestedAll ==
    /\ proc.pc = "processing"
    /\ proc.mode = "store"
    /\ proc.k = Len(proc.work)
    /\ proc' = EndBatch(proc, TRUE)
    /\ UNCHANGED cacheVars /\ UNCHANGED pipeVars /\ UNCHANGED regVars
    /\ UNCHANGED strategyVars

StreamInit ==
    /\ \E mode \in Modes :
        proc = [pc |-> "new", mode |-> mode, running |-> FALSE, stopped |-> FALSE,
                batch |-> << >>, work |-> << >>, k |-> 0, where |-> "loop",
                next |-> 1, handled |-> [m \in Messages |-> 0],
                last |-> [done |-> FALSE]]
    /\ ParkedStrategy
    /\ backend = "memory"
    /\ cache = EmptyMap
    /\ issued = {}
    /\ now = 0
    /\ twin = EmptyMap
    /\ ParkedPipe
    /\ source = [kind |-> "missing"]
    /\ feature_views = << >>
    /\ reg = [inst |-> FALSE, last |-> "none"]
    /\ rel = [pc |-> "idle"]
    /\ obs = [taken |-> FALSE]

StreamNext ==
    \/ Start
    \/ StartResumed
    \/ Stop
    \/ LoopTest
    \/ ConsumeNone
    \/ Consume
    \/ \E ok \in BOOLEAN : HandlerReturn(ok)
    \/ \E ok \in BOOLEAN : IngestMessage(ok)
    \/ IngestedAll

StreamSpec == StreamInit /\ [][StreamNext]_vars

\* C30: no consumed message is lost: once _process_batch has returned, every
\* message of its batch was handled without error or is back in the pending
\* batch, in the order it had; and a batch whose processing failed is attempted
\* again before start() returns.
C30_Claimed ==
    /\ proc.last.done =>
            IF proc.last.ok
            THEN \A i \in DOMAIN proc.last.batch : proc.handled[proc.last.batch[i]] >= 1
            ELSE SubSeq(proc.batch, 1, Len(proc.last.batch)) = proc.last.batch
    /\ proc.pc = "returned" => ~(proc.last.done /\ ~proc.last.ok)

\* C31: with the default ingestion, message by message, every consumed message
\* is ingested into the feature store at most once, also when the ingestion of a
\* later message of its batch fails and the batch is processed again.
C31_Claimed ==
    proc.mode = "store" => \A m \in Messages : proc.handled[m] <= 1

\* C32: between two iterations of the loop of start() the pending batch holds
\* at most batch_size messages, also after batches whose processing failed.
C32_Claimed ==
    proc.pc \in {"loop", "consuming"} => Len(proc.batch) <= BatchSize

\* the steps of start() under a scheduler that resumes every awaiting coroutine:
\* the consumer's start() returns, every consume() call returns (a message or
\* None), and every awaited handler or ingestion returns or raises. stop() is a
\* call of another task and is under no obligation to happen.
StreamFairSpec ==
    /\ StreamSpec
    /\ WF_vars(StartResumed)
    /\ WF_vars(LoopTest)
    /\ WF_vars(ConsumeNone \/ Consume)
    /\ WF_vars(\E ok \in BOOLEAN : HandlerReturn(ok))
    /\ WF_vars(\E ok \in BOOLEAN : IngestMessage(ok))
    /\ WF_vars(IngestedAll)

\* C33: stopping the processor terminates it: once stop() was called, at any
\* point after start() was invoked (also while start() still awaits the
\* consumer's start), start() eventually leaves its loop and returns.
C33_Claimed ==
    proc.stopped ~> (proc.pc = "returned")

(***************************************************************************)
(* FallbackRetrievalStrategy (feature_store/strategies.py): a primary      *)
(* strategy, whose retrieve returns a feature map or None, and the         *)
(* fallback data returned in its place                                     *)
(***************************************************************************)
\* the feature maps a strategy may return and the fallback data may be: every
\* feature left out or with a value, the empty map included
StrategyMaps ==
    UNION {[fs -> {"28", "29"}] : fs \in SUBSET {"age", "purchases_7d"}}

\* Optional[Dict]: None, or a feature map
PrimaryResults == {Absent} \cup StrategyMaps

\* the truth value Python gives an Optional[Dict]: None and {} are false
Truthy(result) == result # Absent /\ result # EmptyMap

\* return result if result else self.fallback_data
Retrieve(result, fallback_data) ==
    IF Truthy(result) THEN result ELSE fallback_data

\* retrieve(fv, entity_id, store) is called: await self.primary.retrieve(...)
RetrieveCall(entity_id) ==
    /\ strat.pc \in {"idle", "returned"}
    /\ strat' = [pc |-> "awaiting", fallback_data |-> strat.fallback_data,
                  entity_id |-> entity_id]
    /\ UNCHANGED cacheVars /\ UNCHANGED pipeVars /\ UNCHANGED regVars
    /\ UNCHANGED streamVars

\* the primary strategy returns result, and retrieve returns
PrimaryReturns(result) ==
    /\ strat.pc = "awaiting"
    /\ strat' = [pc |-> "returned", fallback_data |-> strat.fallback_data,
                  entity_id |-> strat.entity_id, result |-> result,
                  out |-> Retrieve(result, strat.fallback_data)]
    /\ UNCHANGED cacheVars /\ UNCHANGED pipeVars /\ UNCHANGED regVars
    /\ UNCHANGED streamVars

\* FallbackRetrievalStrategy(primary, fallback_data) was constructed
StrategyInit ==
    /\ \E fallback_data \in StrategyMaps :
            strat = [pc |-> "idle", fallback_data |-> fallback_data]
    /\ ParkedStream
    /\ backend = "memory"
    /\ cache = EmptyMap
    /\ issued = {}
    /\ now = 0
    /\ twin = EmptyMap
    /\ ParkedPipe
    /\ source = [kind |-> "missing"]
    /\ feature_views = << >>
    /\ reg = [inst |-> FALSE, last |-> "none"]
    /\ rel = [pc |-> "idle"]
    /\ obs = [taken |-> FALSE]

StrategyNext ==
    \/ \E entity_id \in CacheIds : RetrieveCall(entity_id)
    \/ \E result \in PrimaryResults : PrimaryReturns(result)

StrategySpec == StrategyInit /\ [][StrategyNext]_vars

\* C34: retrieve returns the primary strategy's result whenever the primary
\* found the entity, an empty feature map included, and returns the fallback
\* data only when the primary's result is absent.
C34_Claimed ==
    strat.pc = "returned" =>
        /\ strat.result # Absent => strat.out = strat.result
        /\ strat.result = Absent => strat.out = strat.fallback_data

====
